---------------------------- MODULE Spec2Model ----------------------------
(***************************************************************************)
(* A model of the outbound request pipeline of the Bitrix24 SDK:           *)
(*   - TokenManager      (src/src/auth/token-manager.ts)                   *)
(*   - BitrixRateLimiter (src/src/rateLimiter/rateLimiter.ts)              *)
(*   - ErrorMapper       (src/unnamed/part_003)                            *)
(*   - ErrorHandler      (src/unnamed/part_002)                            *)
(*                                                                         *)
(* JavaScript runs every handler to its next await without interruption,   *)
(* and runs the continuations of a settled promise before any timer, I/O   *)
(* callback or new top-level call.  Each action below is one such segment. *)
(***************************************************************************)
EXTENDS Integers, Sequences, FiniteSets, TLC

(***************************************************************************)
(* Bounds of the model.                                                    *)
(***************************************************************************)
NumCallers == 2      \* concurrent callers of getValidToken
MaxRefreshes == 2    \* refresh promises created in one behaviour
JoinRefreshes == 3   \* refresh promises created when calls follow a failed refresh
MaxTicks == 2        \* clock steps of the token manager's clock
MaxUnits == 2        \* units of work submitted to the rate limiter
BurstUnits == 3      \* units of work submitted back-to-back to an idle limiter
MaxHandlerRetries == 2  \* largest maxRetries an ErrorHandler is built with

(***************************************************************************)
(* TokenManager: constants of the code.                                    *)
(***************************************************************************)
RefreshMarginMinutes == 5       \* isTokenExpiringSoon(marginMinutes = 5)
SecondsPerMinute == 60          \* marginSeconds = marginMinutes * 60
TickStep == 100                 \* seconds the model's clock advances per step
StartTime == 1000               \* Math.floor(Date.now() / 1000) at construction

Callers == 1..NumCallers
PromiseIds == 1..JoinRefreshes
NoTokens == [none |-> TRUE]     \* this.tokens === null
Null == 0                       \* null for tokenIssuedAt / refreshPromise

\* TokenResponse values handed to setTokens; access_token 0 is a missing
\* (empty) access token, domain FALSE a missing domain.
MkTokens(a, r, e, d) ==
  [access_token |-> a, refresh_token |-> r, expires_in |-> e, domain |-> d]

TokenInputs ==
  { MkTokens(1, TRUE, 400, TRUE),     \* fresh, refreshable
    MkTokens(2, TRUE, 300, TRUE),     \* already inside the refresh margin
    MkTokens(3, FALSE, 400, TRUE),    \* no refresh token
    MkTokens(0, TRUE, 400, TRUE),     \* access_token missing
    MkTokens(4, TRUE, 400, FALSE),    \* domain missing
    MkTokens(5, TRUE, 0, TRUE),       \* expires_in missing / zero
    MkTokens(6, TRUE, -1, TRUE),      \* expires_in negative
    [access_token |-> 7, refresh_token |-> TRUE, expires_in |-> 400,
     domain |-> TRUE, expires_in_type |-> "string"] }
                                      \* expires_in the string "400"

\* What the token endpoint answers to a refresh: tokens, the error code
\* invalid_grant, another error whose description quotes invalid_grant, or
\* any other failure.
RefreshResponses == {"ok", "invalid_grant", "described_invalid_grant", "server_error"}

\* The credential set a successful refresh p returns.
RefreshedTokens(p) == MkTokens(10 + p, TRUE, 400, TRUE)

VARIABLES
  handler,          \* ErrorHandler.options and where its handleWithRetry()
                    \* call stands
  handlerLog        \* history: the operation invocations, hook calls and
                    \* sleeps of that call, in order

ehVars == <<handler, handlerLog>>

VARIABLES
  tokens,           \* TokenManager.tokens
  tokenIssuedAt,    \* TokenManager.tokenIssuedAt
  refreshPromise,   \* TokenManager.refreshPromise: Null or a promise id
  promises,         \* promise id -> state of that refreshTokens() promise
  callers,          \* caller -> where its getValidToken() call stands, and
                    \* whether the call invoked events.onTokenExpired
  reactions,        \* promise id -> the callers that began to await it while
                    \* it was pending, in the order of their awaits
  microtasks,       \* the continuations of getValidToken() calls that are
                    \* queued to run, in the order they were queued
  tmNow,            \* Math.floor(Date.now() / 1000)
  episodeCalls,     \* history: token-endpoint calls since the manager was last quiet
  disturbed,        \* history: setTokens/clearTokens ran while a refresh was awaited
  setTokensError    \* history: the message of the Error the last setTokens()
                    \* call threw, "" when it returned

tmOwn == <<tokens, tokenIssuedAt, refreshPromise, promises, callers, reactions,
           microtasks, tmNow, episodeCalls, disturbed, setTokensError>>

\* What an operation of the limiter leaves alone.
tmVars == <<tmOwn, ehVars>>

VARIABLES
  config,           \* BitrixRateLimiter.config
  state,            \* BitrixRateLimiter.state
  requestQueue,     \* BitrixRateLimiter.requestQueue, a sequence of unit ids
  processingQueue,  \* BitrixRateLimiter.processingQueue
  decayTimer,       \* the setInterval behind counterDecreaseInterval
  loop,             \* where the running processQueue() call is suspended
  units,            \* unit id -> the QueuedRequest and what became of it
  served,           \* history: the units in the order of their first invocation
  blockUntil,       \* history: per method, the reset instant of its last
                    \* resource-exhausted failure
  decayRun          \* history: requestCounter after the last invocation and
                    \* the decay ticks that have lowered it since

rlOwn == <<config, state, requestQueue, processingQueue, decayTimer, loop,
           units, served, blockUntil, decayRun>>

\* What an operation of the token manager leaves alone.
rlVars == <<rlOwn, ehVars>>

vars == <<tmOwn, rlOwn, ehVars>>

-----------------------------------------------------------------------------
(***************************************************************************)
(* ErrorMapper                                                             *)
(***************************************************************************)

SystemError(httpStatus, isRetryable, requiresAuth) ==
  [httpStatus |-> httpStatus, isSystemError |-> TRUE,
   isRetryable |-> isRetryable, requiresAuth |-> requiresAuth]

\* ErrorMapper.SYSTEM_ERRORS
SYSTEM_ERRORS ==
  "INTERNAL_SERVER_ERROR" :> SystemError(500, TRUE, FALSE) @@
  "ERROR_UNEXPECTED_ANSWER" :> SystemError(500, TRUE, FALSE) @@
  "QUERY_LIMIT_EXCEEDED" :> SystemError(503, TRUE, FALSE) @@
  "OVERLOAD_LIMIT" :> SystemError(503, TRUE, FALSE) @@
  "ERROR_BATCH_METHOD_NOT_ALLOWED" :> SystemError(405, FALSE, FALSE) @@
  "ERROR_BATCH_LENGTH_EXCEEDED" :> SystemError(400, FALSE, FALSE) @@
  "INVALID_REQUEST" :> SystemError(400, FALSE, FALSE) @@
  "NO_AUTH_FOUND" :> SystemError(401, FALSE, TRUE) @@
  "expired_token" :> SystemError(401, FALSE, TRUE) @@
  "ACCESS_DENIED" :> SystemError(403, FALSE, FALSE) @@
  "INVALID_CREDENTIALS" :> SystemError(403, FALSE, TRUE) @@
  "insufficient_scope" :> SystemError(403, FALSE, TRUE) @@
  "user_access_error" :> SystemError(403, FALSE, FALSE) @@
  "ERROR_MANIFEST_IS_NOT_AVAILABLE" :> SystemError(404, FALSE, FALSE)

\* The property names every object inherits from Object.prototype.
ObjectPrototypeKeys ==
  {"__defineGetter__", "__defineSetter__", "__lookupGetter__",
   "__lookupSetter__", "__proto__", "constructor", "hasOwnProperty",
   "isPrototypeOf", "propertyIsEnumerable", "toLocaleString", "toString",
   "valueOf"}

\* this.SYSTEM_ERRORS[code]: the table's entry, a member inherited from
\* Object.prototype (truthy, without the fields of an entry), or undefined.
LookupSystemError(code) ==
  IF code \in DOMAIN SYSTEM_ERRORS
  THEN [found |-> "own", entry |-> SYSTEM_ERRORS[code]]
  ELSE IF code \in ObjectPrototypeKeys
  THEN [found |-> "inherited", entry |-> SystemError(0, FALSE, FALSE)]
  ELSE [found |-> "undefined", entry |-> SystemError(0, FALSE, FALSE)]

\* ErrorMapper.mapApiError(errorResponse, httpStatus): the BitrixErrorDetails.
MapApiErrorDetails(errorResponse, httpStatus) ==
  LET systemError == LookupSystemError(errorResponse.error)
      own == systemError.found = "own"
  IN  [code |-> errorResponse.error,
       message |-> IF errorResponse.error_description = ""
                   THEN "Unknown error"
                   ELSE errorResponse.error_description,
       httpStatus |-> IF own /\ systemError.entry.httpStatus # 0
                      THEN systemError.entry.httpStatus
                      ELSE httpStatus,
       isSystemError |-> systemError.found # "undefined",
       isRetryable |-> own /\ systemError.entry.isRetryable,
       requiresAuth |-> own /\ systemError.entry.requiresAuth]

HttpError(code, message, httpStatus, isRetryable, requiresAuth) ==
  [code |-> code, message |-> message, httpStatus |-> httpStatus,
   isSystemError |-> FALSE, isRetryable |-> isRetryable,
   requiresAuth |-> requiresAuth]

\* A mapping that also asks for authentication on 403.
ForbiddenAsksAuth(httpStatus) ==
  HttpError("HTTP", "HTTP error", httpStatus,
            httpStatus = 429 \/ httpStatus >= 500, httpStatus \in {401, 403})

\* ErrorMapper.mapHttpStatus(httpStatus)
MapHttpStatus(httpStatus) ==
  CASE httpStatus = 400 -> HttpError("BAD_REQUEST", "Bad request", httpStatus, FALSE, FALSE)
    [] httpStatus = 401 -> HttpError("UNAUTHORIZED", "Unauthorized access", httpStatus, FALSE, TRUE)
    [] httpStatus = 403 -> HttpError("FORBIDDEN", "Access forbidden", httpStatus, FALSE, FALSE)
    [] httpStatus = 404 -> HttpError("NOT_FOUND", "Resource not found", httpStatus, FALSE, FALSE)
    [] httpStatus = 405 -> HttpError("METHOD_NOT_ALLOWED", "Method not allowed", httpStatus, FALSE, FALSE)
    [] httpStatus = 429 -> HttpError("TOO_MANY_REQUESTS", "Too many requests", httpStatus, TRUE, FALSE)
    [] httpStatus = 500 -> HttpError("INTERNAL_SERVER_ERROR", "Internal server error", httpStatus, TRUE, FALSE)
    [] httpStatus = 502 -> HttpError("BAD_GATEWAY", "Bad gateway", httpStatus, TRUE, FALSE)
    [] httpStatus = 503 -> HttpError("SERVICE_UNAVAILABLE", "Service unavailable", httpStatus, TRUE, FALSE)
    [] httpStatus = 504 -> HttpError("GATEWAY_TIMEOUT", "Gateway timeout", httpStatus, TRUE, FALSE)
    [] OTHER -> HttpError("UNKNOWN_HTTP_ERROR", "HTTP error", httpStatus,
                          httpStatus >= 500, FALSE)

\* What the transport answers: an HTTP status and a JSON body that carries
\* an error code (error # "") or none.
Response(status, error, error_description) ==
  [status |-> status, error |-> error, error_description |-> error_description]

\* ErrorMapper.mapHttpResponse(response, responseBody)
MapHttpResponse(response) ==
  IF response.error # ""
  THEN MapApiErrorDetails(response, response.status)
  ELSE MapHttpStatus(response.status)

-----------------------------------------------------------------------------
(***************************************************************************)
(* ErrorHandler                                                            *)
(***************************************************************************)

\* The constructor's defaults.
DefaultMaxRetries == 3
DefaultRetryDelay == 1000

NoError == HttpError("", "", 0, FALSE, FALSE)
NoResponse == Response(0, "", "")

\* The error codes the transport's error bodies carry here: codes of the
\* table, a code the table does not know, and a code that names a member of
\* Object.prototype.
ApiCodes ==
  {"QUERY_LIMIT_EXCEEDED", "OVERLOAD_LIMIT", "INTERNAL_SERVER_ERROR",
   "NO_AUTH_FOUND", "expired_token", "INVALID_CREDENTIALS", "insufficient_scope",
   "ACCESS_DENIED", "SOME_ERROR", "constructor"}

\* The HTTP statuses of the answers with an error body, and of those without.
ApiStatuses == {200, 400, 503}
BodylessStatuses == {400, 401, 403, 404, 405, 418, 429, 500, 501, 502, 503, 504}

TransportResponses ==
  {Response(st, c, IF c = "OVERLOAD_LIMIT" THEN "" ELSE "description") :
     st \in ApiStatuses, c \in ApiCodes}
  \cup {Response(st, "", "") : st \in BodylessStatuses}

\* A BitrixError a caller's operation builds itself: retryable, and asking
\* for authentication.
CallerError == HttpError("TOKEN_REVOKED", "token revoked", 401, TRUE, TRUE)

\* How an invocation of the operation settles: it resolves ("result"), it
\* throws the BitrixError ErrorMapper makes of the transport's answer, as
\* the SDK's apiCall does ("response"), it throws a BitrixError of its own
\* ("BitrixError"), it throws a plain Error ("Error"), it throws a value
\* whose message is empty or missing ("EmptyError"), or it throws null or
\* undefined ("Nullish").
Outcomes ==
  {[kind |-> "result", response |-> NoResponse],
   [kind |-> "BitrixError", response |-> NoResponse],
   [kind |-> "Error", response |-> NoResponse],
   [kind |-> "EmptyError", response |-> NoResponse],
   [kind |-> "Nullish", response |-> NoResponse]}
  \cup {[kind |-> "response", response |-> r] : r \in TransportResponses}

\* The value the operation throws.
ThrownBy(outcome) ==
  CASE outcome.kind = "response" ->
         [bitrix |-> TRUE, nullish |-> FALSE,
          details |-> MapHttpResponse(outcome.response)]
    [] outcome.kind = "BitrixError" ->
         [bitrix |-> TRUE, nullish |-> FALSE, details |-> CallerError]
    [] outcome.kind = "EmptyError" ->
         [bitrix |-> FALSE, nullish |-> FALSE,
          details |-> HttpError("", "", 0, FALSE, FALSE)]
    [] outcome.kind = "Nullish" ->
         [bitrix |-> FALSE, nullish |-> TRUE,
          details |-> HttpError("", "", 0, FALSE, FALSE)]
    [] OTHER -> [bitrix |-> FALSE, nullish |-> FALSE,
                 details |-> HttpError("", "operation failed", 0, FALSE, FALSE)]

\* The TypeError that reading error.message of null or undefined raises.
TypeErrorRaised ==
  [code |-> "TypeError", message |-> "Cannot read properties of null",
   httpStatus |-> 0, isSystemError |-> FALSE, isRetryable |-> FALSE,
   requiresAuth |-> FALSE]

\* ErrorHandler.ensureBitrixError(error): the BitrixError it returns, or
\* TypeErrorRaised when it throws instead of returning.
EnsureBitrixError(error) ==
  IF error.bitrix
  THEN error.details
  ELSE IF error.nullish
  THEN TypeErrorRaised
  ELSE [code |-> "UNKNOWN_ERROR",
        message |-> IF error.details.message = ""
                    THEN "Unknown error occurred"
                    ELSE error.details.message,
        httpStatus |-> 500, isSystemError |-> FALSE, isRetryable |-> FALSE,
        requiresAuth |-> FALSE]

\* BitrixError.isAuthError()
IsAuthError(error) ==
  error.requiresAuth
  \/ error.code \in {"NO_AUTH_FOUND", "expired_token", "INVALID_CREDENTIALS"}

\* BitrixError.isRateLimitError()
IsRateLimit(error) == error.code \in {"QUERY_LIMIT_EXCEEDED", "OVERLOAD_LIMIT"}

\* BitrixError.getRetryAfter()
GetRetryAfter(error) ==
  IF IsRateLimit(error) THEN 60000
  ELSE IF error.httpStatus >= 500 THEN 5000
  ELSE 0

Logged(event, arg) == [event |-> event, arg |-> arg]

\* The head of the for loop of handleWithRetry: the next invocation of the
\* operation, or the throw behind the loop.
LoopHead(h, log) ==
  IF h.attempt <= h.maxRetries
  THEN /\ handler' = [h EXCEPT !.pc = "operation"]
       /\ handlerLog' = Append(log, Logged("operation", h.attempt))
  ELSE /\ handler' = [h EXCEPT !.pc = "threw", !.thrown = "lastError"]
       /\ handlerLog' = log

\* A handleWithRetry that sleeps retryDelay before every retry.
ConfiguredDelay(h, error) == h.retryDelay

\* lastError.getRetryAfter() || this.options.retryDelay
RetryDelayOf(h, error) ==
  IF GetRetryAfter(error) # 0 THEN GetRetryAfter(error) ELSE h.retryDelay

\* The lines of handleWithRetry from the computation of the delay to the
\* sleep.
BeforeRetry(h, log) ==
  /\ handler' = [h EXCEPT !.pc = "sleep", !.delay = RetryDelayOf(h, h.lastError)]
  /\ handlerLog' = log \o <<Logged("onRetry", h.attempt + 1),
                             Logged("sleep", RetryDelayOf(h, h.lastError))>>

\* handleWithRetry(operation) is called.
HandleWithRetry ==
  /\ handler.pc = "idle"
  /\ LoopHead([handler EXCEPT !.attempt = 0], handlerLog)
  /\ UNCHANGED <<tmOwn, rlOwn>>

\* lastError.isRetryable
IsRetryable(error) == error.isRetryable

\* The awaited operation() settles: the return, or the catch block up to
\* its break, its next await or the sleep.
OperationSettles(outcome) ==
  /\ handler.pc = "operation"
  /\ IF outcome.kind = "result"
     THEN /\ handler' = [handler EXCEPT !.pc = "returned"]
          /\ handlerLog' = handlerLog
     ELSE LET lastError == EnsureBitrixError(ThrownBy(outcome))
              h == [handler EXCEPT !.lastError = lastError,
                                   !.lastResponse = outcome.response]
          IN  IF lastError = TypeErrorRaised
              THEN \* ensureBitrixError throws inside the catch block:
                   \* lastError is not assigned, the TypeError leaves the call
                   /\ handler' = [handler EXCEPT !.pc = "threw",
                                                 !.thrown = "TypeError"]
                   /\ handlerLog' = handlerLog
              ELSE IF h.attempt = h.maxRetries \/ ~IsRetryable(lastError)
              THEN /\ handler' = [h EXCEPT !.pc = "threw", !.thrown = "lastError"]
                   /\ handlerLog' = handlerLog
              ELSE IF IsAuthError(lastError)
              THEN /\ handler' = [h EXCEPT !.pc = "onAuthRequired"]
                   /\ handlerLog' = Append(handlerLog, Logged("onAuthRequired", h.attempt))
              ELSE IF IsRateLimit(lastError)
              THEN /\ handler' = [h EXCEPT !.pc = "onRateLimit"]
                   /\ handlerLog' = Append(handlerLog, Logged("onRateLimit", h.attempt))
              ELSE BeforeRetry(h, handlerLog)
  /\ UNCHANGED <<tmOwn, rlOwn>>

\* The promise of options.onAuthRequired settles: "continue", or the
\* rejection leaves handleWithRetry.
OnAuthRequiredSettles(resolved) ==
  /\ handler.pc = "onAuthRequired"
  /\ IF resolved
     THEN LoopHead([handler EXCEPT !.attempt = @ + 1], handlerLog)
     ELSE /\ handler' = [handler EXCEPT !.pc = "threw", !.thrown = "hookError"]
          /\ handlerLog' = handlerLog
  /\ UNCHANGED <<tmOwn, rlOwn>>

\* The promise of options.onRateLimit settles.
OnRateLimitSettles(resolved) ==
  /\ handler.pc = "onRateLimit"
  /\ IF resolved
     THEN BeforeRetry(handler, handlerLog)
     ELSE /\ handler' = [handler EXCEPT !.pc = "threw", !.thrown = "hookError"]
          /\ handlerLog' = handlerLog
  /\ UNCHANGED <<tmOwn, rlOwn>>

\* The timer of sleep(delay) fires: attempt++ and the loop's next turn.
SleepEnds ==
  /\ handler.pc = "sleep"
  /\ LoopHead([handler EXCEPT !.attempt = @ + 1, !.delay = 0], handlerLog)
  /\ UNCHANGED <<tmOwn, rlOwn>>

\* new ErrorHandler({maxRetries, retryDelay})
EhInitWith(maxRetries, retryDelay) ==
  /\ handler \in [maxRetries : maxRetries, retryDelay : retryDelay,
                   pc : {"idle"}, attempt : {0}, delay : {0},
                   lastError : {NoError}, lastResponse : {NoResponse},
                   thrown : {"none"}]
  /\ handlerLog = <<>>

\* new ErrorHandler()
EhInit == EhInitWith({DefaultMaxRetries}, {DefaultRetryDelay})

EhNext ==
  \/ HandleWithRetry
  \/ \E o \in Outcomes : OperationSettles(o)
  \/ \E r \in BOOLEAN : OnAuthRequiredSettles(r)
  \/ \E r \in BOOLEAN : OnRateLimitSettles(r)
  \/ SleepEnds

\* An awaited promise settles or the sleep's timer fires.
EhProgress ==
  \/ \E o \in Outcomes : OperationSettles(o)
  \/ \E r \in BOOLEAN : OnAuthRequiredSettles(r)
  \/ \E r \in BOOLEAN : OnRateLimitSettles(r)
  \/ SleepEnds

-----------------------------------------------------------------------------
(***************************************************************************)
(* TokenManager                                                            *)
(***************************************************************************)

\* typeof tokens.expires_in
TypeofExpiresIn(t) ==
  IF "expires_in_type" \in DOMAIN t THEN t.expires_in_type ELSE "number"

\* The fields validateTokenStructure finds missing: !tokens[field].
MissingFields(t) ==
  {f \in {"access_token", "expires_in", "domain"} :
     CASE f = "access_token" -> t.access_token = 0
       [] f = "expires_in" -> TypeofExpiresIn(t) = "number" /\ t.expires_in = 0
       [] f = "domain" -> ~t.domain}

\* A validateTokenStructure that accepts everything.
NeverThrows(t) == FALSE

\* validateTokenStructure: TRUE when it throws.
ValidateTokenStructureThrows(t) ==
  \/ MissingFields(t) # {}
  \/ TypeofExpiresIn(t) # "number"
  \/ t.expires_in <= 0

\* validateTokenStructure: the message of the Error it throws.
ValidateTokenStructureError(t) ==
  IF MissingFields(t) # {}
  THEN "Invalid token structure. Missing fields"
  ELSE "Invalid expires_in value in token response"

\* isTokenExpired(marginMinutes)
IsTokenExpired(marginMinutes) ==
  IF tokens = NoTokens \/ tokenIssuedAt = Null
  THEN TRUE
  ELSE LET marginSeconds == marginMinutes * SecondsPerMinute
           expiresAt == tokenIssuedAt + tokens.expires_in
       IN  (expiresAt - marginSeconds) <= tmNow

\* An isTokenExpiringSoon without a margin.
ExpiringAtExpiry == IsTokenExpired(0)

\* isTokenExpiringSoon(marginMinutes = 5)
IsTokenExpiringSoon == IsTokenExpired(RefreshMarginMinutes)

\* hasValidTokens(): isTokenExpired(60), the argument being marginMinutes
ValidityMargin == 60
HasValidTokens ==
  IF tokens = NoTokens THEN FALSE ELSE ~IsTokenExpired(ValidityMargin)

InFlight == {p \in PromiseIds : promises[p].state = "pending"}
Awaiting == {c \in Callers : callers[c].pc = "awaiting"}
\* callers whose awaited promise has settled: their continuations are queued
\* and run before the clock moves
Runnable == {c \in Awaiting : promises[callers[c].promise].state \in {"fulfilled", "rejected"}}
\* The continuations of the callers that awaited a promise while it was
\* pending are queued together when it settles and run one right after the
\* other: after the first of them nothing else runs until the last has run.
\* The continuation of a caller that awaits a promise already settled is
\* queued by that await, behind whatever was queued before it.
Resuming == microtasks # <<>> /\ Head(microtasks).follows

\* The continuations a settling promise queues for its reactions.
Continuations(waiting) ==
  [i \in 1..Len(waiting) |-> [caller |-> waiting[i], follows |-> i > 1]]
Quiet == InFlight = {} /\ Awaiting = {}

\* A token set that always counts as carrying a refresh token.
AssumeRefreshToken(t) == TRUE

\* !!this.tokens.refresh_token
HasRefreshToken(t) == t.refresh_token

\* A getValidToken that starts a refresh whenever the token is expiring.
AlwaysStartRefresh == TRUE

\* The check "if (!this.refreshPromise)" of getValidToken.
MustStartRefresh == refreshPromise = Null

\* getValidToken(), from the call to its return, throw or first await, in a
\* behaviour that creates the refresh promises ids.
GetValidTokenUsing(c, ids) ==
  /\ ~Resuming
  /\ callers[c].pc # "awaiting"
  /\ IF tokens = NoTokens
     THEN /\ callers' = [callers EXCEPT ![c] = [pc |-> "threw", promise |-> Null,
                                                result |-> "No tokens available",
                                                expiredHook |-> FALSE]]
          /\ UNCHANGED <<refreshPromise, promises, reactions, microtasks,
                         episodeCalls, disturbed>>
     ELSE IF ~IsTokenExpiringSoon
     THEN /\ callers' = [callers EXCEPT ![c] = [pc |-> "returned", promise |-> Null,
                                                result |-> tokens.access_token,
                                                expiredHook |-> FALSE]]
          /\ UNCHANGED <<refreshPromise, promises, reactions, microtasks,
                         episodeCalls, disturbed>>
     ELSE IF ~HasRefreshToken(tokens)
     THEN /\ callers' = [callers EXCEPT ![c] = [pc |-> "threw", promise |-> Null,
                                                result |-> "Access token expired",
                                                expiredHook |-> TRUE]]
          /\ UNCHANGED <<refreshPromise, promises, reactions, microtasks,
                         episodeCalls, disturbed>>
     ELSE IF MustStartRefresh
     THEN \* this.refreshPromise = this.refreshTokens(): the call to the
          \* token endpoint is issued before refreshTokens first awaits
          \E p \in ids :
            /\ promises[p].state = "unused"
            /\ \A q \in ids : q < p => promises[q].state # "unused"
            /\ promises' = [promises EXCEPT ![p].state = "pending"]
            /\ refreshPromise' = p
            /\ reactions' = [reactions EXCEPT ![p] = <<c>>]
            /\ microtasks' = microtasks
            /\ callers' = [callers EXCEPT ![c] = [pc |-> "awaiting", promise |-> p,
                                                  result |-> Null,
                                                  expiredHook |-> FALSE]]
            /\ episodeCalls' = IF Quiet THEN 1 ELSE episodeCalls + 1
            /\ disturbed' = IF Quiet THEN FALSE ELSE disturbed
     ELSE /\ callers' = [callers EXCEPT ![c] = [pc |-> "awaiting",
                                                promise |-> refreshPromise,
                                                result |-> Null,
                                                expiredHook |-> FALSE]]
          /\ IF promises[refreshPromise].state = "pending"
             THEN /\ reactions' = [reactions EXCEPT
                       ![refreshPromise] = Append(@, c)]
                  /\ microtasks' = microtasks
             ELSE /\ microtasks' = Append(microtasks,
                                          [caller |-> c, follows |-> FALSE])
                  /\ reactions' = reactions
          /\ UNCHANGED <<refreshPromise, promises, episodeCalls, disturbed>>
  /\ UNCHANGED <<tokens, tokenIssuedAt, tmNow, setTokensError, rlVars>>

GetValidToken(c) == GetValidTokenUsing(c, 1..MaxRefreshes)

\* clearTokens()
ClearTokensEffect ==
  /\ tokens' = NoTokens
  /\ tokenIssuedAt' = Null
  /\ refreshPromise' = Null

\* BitrixOAuth2.refreshToken: the message of the Error it throws for a
\* response that is not ok.
OAuthRefreshError(resp) ==
  CASE resp = "invalid_grant" ->
         "Refresh token expired or invalid. Re-authentication required."
    [] resp = "described_invalid_grant" ->
         "invalid_grant: refresh token is no longer valid"
    [] OTHER -> "Token refresh failed: 500"

\* A refreshTokens that takes every failure for a rejected refresh token.
AnyFailureClears(msg) == TRUE

\* error.message.includes('invalid_grant'), over the messages above
IncludesInvalidGrant(msg) == msg = "invalid_grant: refresh token is no longer valid"

\* refreshTokens() after the token endpoint answered: the rest of the
\* function, which settles the promise it returned.
RefreshSettle(p, resp) ==
  /\ ~Resuming
  /\ promises[p].state = "pending"
  /\ IF resp = "ok"
     THEN /\ tokenIssuedAt' = tmNow
          /\ promises' = [promises EXCEPT ![p] =
               [state |-> "fulfilled", value |-> RefreshedTokens(p), error |-> ""]]
          /\ UNCHANGED <<tokens, refreshPromise>>
     ELSE IF IncludesInvalidGrant(OAuthRefreshError(resp))
     THEN /\ ClearTokensEffect
          /\ promises' = [promises EXCEPT ![p] =
               [state |-> "rejected", value |-> NoTokens,
                error |-> "Refresh token expired. Re-authentication required."]]
     ELSE /\ promises' = [promises EXCEPT ![p] =
               [state |-> "rejected", value |-> NoTokens,
                error |-> OAuthRefreshError(resp)]]
          /\ UNCHANGED <<tokens, tokenIssuedAt, refreshPromise>>
  /\ microtasks' = microtasks \o Continuations(reactions[p])
  /\ reactions' = [reactions EXCEPT ![p] = <<>>]
  /\ UNCHANGED <<callers, tmNow, episodeCalls, disturbed, setTokensError, rlVars>>

\* getValidToken() after "await this.refreshPromise": try / catch / finally.
Resume(c) ==
  /\ microtasks # <<>>
  /\ Head(microtasks).caller = c
  /\ microtasks' = Tail(microtasks)
  /\ LET p == callers[c].promise IN
     IF promises[p].state = "fulfilled"
     THEN /\ tokens' = promises[p].value
          /\ callers' = [callers EXCEPT ![c] =
               [pc |-> "returned", promise |-> p,
                result |-> promises[p].value.access_token,
                expiredHook |-> FALSE]]
     ELSE /\ tokens' = tokens
          /\ callers' = [callers EXCEPT ![c] =
               [pc |-> "threw", promise |-> p, result |-> promises[p].error,
                expiredHook |-> FALSE]]
  /\ refreshPromise' = Null
  /\ UNCHANGED <<tokenIssuedAt, promises, reactions, tmNow, episodeCalls,
                 disturbed, setTokensError, rlVars>>

\* setTokens(t)
SetTokens(t) ==
  /\ ~Resuming
  /\ IF ValidateTokenStructureThrows(t)
     THEN /\ setTokensError' = ValidateTokenStructureError(t)
          /\ UNCHANGED <<tokens, tokenIssuedAt, disturbed>>
     ELSE /\ tokens' = t
          /\ tokenIssuedAt' = tmNow
          /\ disturbed' = (disturbed \/ ~Quiet)
          /\ setTokensError' = ""
  /\ UNCHANGED <<refreshPromise, promises, callers, reactions, microtasks,
                 tmNow, episodeCalls, rlVars>>

\* clearTokens()
ClearTokens ==
  /\ ~Resuming
  /\ ClearTokensEffect
  /\ disturbed' = (disturbed \/ ~Quiet)
  /\ UNCHANGED <<promises, callers, reactions, microtasks, tmNow,
                 episodeCalls, setTokensError, rlVars>>

\* The wall clock advances.
TmTick ==
  /\ Runnable = {}
  /\ tmNow < StartTime + MaxTicks * TickStep
  /\ tmNow' = tmNow + TickStep
  /\ UNCHANGED <<tokens, tokenIssuedAt, refreshPromise, promises, callers,
                 reactions, microtasks, episodeCalls, disturbed,
                 setTokensError, rlVars>>

TmInitOwn ==
  /\ tokens = NoTokens
  /\ tokenIssuedAt = Null
  /\ refreshPromise = Null
  /\ promises = [p \in PromiseIds |-> [state |-> "unused", value |-> NoTokens, error |-> ""]]
  /\ callers = [c \in Callers |-> [pc |-> "idle", promise |-> Null, result |-> Null,
                                   expiredHook |-> FALSE]]
  /\ reactions = [p \in PromiseIds |-> <<>>]
  /\ microtasks = <<>>
  /\ tmNow = StartTime
  /\ setTokensError = ""
  /\ episodeCalls = 0
  /\ disturbed = FALSE

\* The token manager after construction, beside an error handler that is
\* not in use.
TmInit == TmInitOwn /\ EhInit

TmNext ==
  \/ \E c \in Callers : GetValidToken(c)
  \/ \E p \in PromiseIds, resp \in RefreshResponses : RefreshSettle(p, resp)
  \/ \E c \in Callers : Resume(c)
  \/ \E t \in TokenInputs : SetTokens(t)
  \/ ClearTokens
  \/ TmTick

-----------------------------------------------------------------------------
(***************************************************************************)
(* BitrixRateLimiter                                                       *)
(*                                                                         *)
(* Time is kept relative to the present: a stored instant t stands for the *)
(* instant Date.now() + t, a stored timestamp a for Date.now() - a.  All   *)
(* durations are in milliseconds.  The clock is observed every TimeStep    *)
(* milliseconds, the period of the decay interval.                         *)
(***************************************************************************)
\* The units of work: at most ScenarioUnits requests are made in a run.
ScenarioUnits == 11
Units == 1..ScenarioUnits
Methods == {"X", "Y"}
Priorities == {0, 100, -100}

NoReset == -1                  \* operatingResetAt === null, or no digits parsed
TimeStep == 1000               \* setInterval(..., 1000)
WindowAtConstruction == -1     \* state.operatingTimeWindow as the constructor left it

\* The configuration handed to the constructor (Partial<RateLimitConfig>).
CfgMaxRequestsPerSecond == 1
CfgBurstLimit == 2
CfgOperatingTimeWindow == 2
CfgMaxRetries == 1
CfgRetryBaseDelay == 1000
CfgMaxQueueSize == 2
CfgQueueTimeout == 1000

\* What a unit of work can settle with: a result without time info, a
\* result with time.operating and time.operating_reset_at, an Error whose
\* message names QUERY_LIMIT_EXCEEDED, names operating_reset_at followed by
\* digits, or names neither, or a rejection with a value that has no string
\* message (undefined, null, a string, a plain object).
WorkResults ==
  {[ok |-> TRUE, operating |-> 0, rate |-> FALSE, resource |-> FALSE, reset |-> NoReset],
   [ok |-> TRUE, operating |-> 1, rate |-> FALSE, resource |-> FALSE, reset |-> 1000],
   [ok |-> FALSE, operating |-> 0, rate |-> TRUE, resource |-> FALSE, reset |-> NoReset],
   [ok |-> FALSE, operating |-> 0, rate |-> FALSE, resource |-> TRUE, reset |-> 2000],
   [ok |-> FALSE, operating |-> 0, rate |-> FALSE, resource |-> FALSE, reset |-> NoReset],
   [ok |-> FALSE, operating |-> 0, rate |-> FALSE, resource |-> FALSE, reset |-> NoReset,
    value |-> "undefined"]}

\* The rejection value has no string message: error.message.includes(...)
\* throws a TypeError.
NoMessage(res) == "value" \in DOMAIN res

\* The requests the callers make: the method and the priority of each unit.
UnitMethod(u) == IF u % 2 = 1 THEN "X" ELSE "Y"
UnitPriorities(u) == IF u % 2 = 1 THEN {0} ELSE {0, 100}

\* String.prototype.includes on the messages that occur here.
Includes(message, needle) ==
  <<message, needle>> \in
    {<<"QUERY_LIMIT_EXCEEDED", "QUERY_LIMIT_EXCEEDED">>,
     <<"QUERY_LIMIT_EXCEEDED: slow down", "QUERY_LIMIT_EXCEEDED">>,
     <<"HTTP 503 overload", "503">>,
     <<"operating_reset_at", "operating_reset_at">>,
     <<"operating_reset_at: 1700000000", "operating_reset_at">>,
     <<"operating_reset_at: 1705031234", "operating_reset_at">>,
     <<"operating_reset_at: 1705031234", "503">>}

\* Error bodies of the transport, {error, error_description}: the two
\* rate-limit codes of ErrorMapper.SYSTEM_ERRORS and one other code, with a
\* description that names the code, names the HTTP status, names neither, or
\* is missing.
ApiErrorResponses ==
  {[error |-> "QUERY_LIMIT_EXCEEDED", error_description |-> "QUERY_LIMIT_EXCEEDED: slow down"],
   [error |-> "QUERY_LIMIT_EXCEEDED", error_description |-> "Too many requests"],
   [error |-> "OVERLOAD_LIMIT", error_description |-> "HTTP 503 overload"],
   [error |-> "OVERLOAD_LIMIT", error_description |-> ""],
   [error |-> "INTERNAL_SERVER_ERROR", error_description |-> "Internal error"]}

\* ErrorMapper.mapApiError(errorResponse, httpStatus): the BitrixError's code
\* and its message (super(details.message)).
MapApiError(errorResponse) ==
  [code |-> errorResponse.error,
   message |-> IF errorResponse.error_description = ""
               THEN "Unknown error"
               ELSE errorResponse.error_description]

\* BitrixError.isRateLimitError()
IsRateLimitError(error) == error.code \in {"QUERY_LIMIT_EXCEEDED", "OVERLOAD_LIMIT"}

\* A unit of work that throws the BitrixError of an error body, as the
\* limiter's handleRequestError reads it.
Thrown(errorResponse) ==
  LET error == MapApiError(errorResponse)
  IN  [ok |-> FALSE, operating |-> 0,
       rate |-> \/ Includes(error.message, "QUERY_LIMIT_EXCEEDED")
                \/ Includes(error.message, "503"),
       resource |-> Includes(error.message, "operating_reset_at"),
       reset |-> NoReset,
       code |-> error.code,
       message |-> error.message]

ClassifiedResults ==
  {r \in WorkResults : r.ok} \cup {Thrown(e) : e \in ApiErrorResponses}

\* error.message.match(/operating_reset_at['":\s]*(\d+)/) on the messages
\* that occur here: it matches when digits follow the name.
ResetMatch(message) ==
  message \in {"operating_reset_at: 1700000000", "operating_reset_at: 1705031234"}

\* A unit of work that throws new Error(message), as handleRequestError and
\* handleResourceLimitExceeded read the message.  The reset instant that the
\* digits of the message name lies 2 * TimeStep after the moment of the
\* failure; a message without digits names none.
ThrownMessage(message) ==
  [ok |-> FALSE, operating |-> 0,
   rate |-> \/ Includes(message, "QUERY_LIMIT_EXCEEDED")
            \/ Includes(message, "503"),
   resource |-> Includes(message, "operating_reset_at"),
   reset |-> IF ResetMatch(message) THEN 2 * TimeStep ELSE NoReset,
   message |-> message]

\* Resource-exhausted failures that name their reset instant.
ResourceErrors ==
  {ThrownMessage("operating_reset_at: 1700000000"),
   ThrownMessage("operating_reset_at: 1705031234")}

ErrorMessage(res) ==
  IF "message" \in DOMAIN res THEN res.message
  ELSE IF res.rate THEN "QUERY_LIMIT_EXCEEDED"
  ELSE IF res.resource
  THEN IF res.reset # NoReset THEN "operating_reset_at: 1700000000"
       ELSE "operating_reset_at"
  ELSE "other error"

IdleLoop == [pc |-> "idle", left |-> 0, unit |-> 0]

\* processQueue was left by an exception: no loop runs, and the flag
\* processingQueue was not cleared.
DeadLoop == [pc |-> "dead", left |-> 0, unit |-> 0]

\* A QueuedRequest and what became of it.  where: the place that holds the
\* request ("queue", "inflight" while its work is awaited, "timer" while a
\* retry is scheduled, "none").  age: Date.now() - timestamp.  left: the time
\* to its retry.  The rest is history: how its future was settled, how often
\* resolve/reject were called, how often its work was invoked, and whether
\* every invocation found the counter below burstLimit, the method admitted
\* and the request not older than queueTimeout.
NewUnit == [submitted |-> FALSE, late |-> FALSE, where |-> "none", method |-> "X", priority |-> 0,
            age |-> 0, retryCount |-> 0, left |-> 0,
            outcome |-> "none", settleCount |-> 0, invoked |-> 0,
            belowBurst |-> TRUE, admitted |-> TRUE, inTime |-> TRUE]

\* The limiter's mutable state as one value, so that the calls a handler
\* makes can be applied one after the other.
Cur == [config |-> config, state |-> state, requestQueue |-> requestQueue,
        processingQueue |-> processingQueue, loop |-> loop, units |-> units,
        blockUntil |-> blockUntil, served |-> served, decayRun |-> decayRun]

Commit(B) ==
  /\ config' = B.config
  /\ state' = B.state
  /\ requestQueue' = B.requestQueue
  /\ processingQueue' = B.processingQueue
  /\ loop' = B.loop
  /\ units' = B.units
  /\ blockUntil' = B.blockUntil
  /\ served' = B.served
  /\ decayRun' = B.decayRun

\* request.resolve(result) / request.reject(error): the first call settles
\* the future.
SettleUnit(B, u, how) ==
  [B EXCEPT !.units[u] = [@ EXCEPT !.outcome = IF @ = "none" THEN how ELSE @,
                                   !.settleCount = @ + 1]]

\* The request leaves the place that held it.
Release(B, u) ==
  [B EXCEPT !.units[u] = [@ EXCEPT !.where = "none", !.age = 0, !.left = 0]]

RECURSIVE SettleAll(_, _, _)
SettleAll(B, us, how) ==
  IF us = {} THEN B
  ELSE LET u == CHOOSE x \in us : TRUE
       IN  SettleAll(SettleUnit(B, u, how), us \ {u}, how)

RECURSIVE ReleaseAll(_, _)
ReleaseAll(B, us) ==
  IF us = {} THEN B
  ELSE LET u == CHOOSE x \in us : TRUE
       IN  ReleaseAll(Release(B, u), us \ {u})

\* A queue whose requests never time out.
NeverExpired(B, u) == FALSE

\* Date.now() - request.timestamp > this.config.queueTimeout
Expired(B, u) == B.units[u].age > B.config.queueTimeout

\* canMakeRequest(method): its result and the state it leaves.
CanMakeRequest(B, method) ==
  LET s == B.state
      held == /\ method \in s.blockedMethods
              /\ s.operatingResetAt # NoReset
              /\ 0 < s.operatingResetAt
      s1 == IF method \in s.blockedMethods /\ ~held
            THEN [s EXCEPT !.blockedMethods = @ \ {method}, !.operatingResetAt = NoReset]
            ELSE s
  IN  IF held THEN [ok |-> FALSE, B |-> B]
      ELSE IF s1.requestCounter >= B.config.burstLimit
      THEN [ok |-> FALSE, B |-> [B EXCEPT !.state = [s1 EXCEPT !.isBlocked = TRUE]]]
      ELSE [ok |-> TRUE, B |-> [B EXCEPT !.state = [s1 EXCEPT !.isBlocked = FALSE]]]

\* A comparator that leaves the queue in the order of insertion.
InsertionOrder(B, a, b) == FALSE

\* The comparator of addToQueue's sort: a sorts before b.
SortsBefore(B, a, b) ==
  \/ B.units[a].priority > B.units[b].priority
  \/ /\ B.units[a].priority = B.units[b].priority
     /\ B.units[a].age > B.units[b].age

\* Array.prototype.sort is stable: with the elements before it sorted, x
\* goes right behind the last element it does not sort before.
InsertSorted(B, q, x) ==
  LET stay == {i \in 1..Len(q) : ~SortsBefore(B, x, q[i])}
      pos == IF stay = {} THEN 0 ELSE CHOOSE i \in stay : \A j \in stay : j <= i
  IN  SubSeq(q, 1, pos) \o <<x>> \o SubSeq(q, pos + 1, Len(q))

RECURSIVE SortQueue(_, _)
SortQueue(B, q) ==
  IF Len(q) <= 1 THEN q
  ELSE InsertSorted(B, SortQueue(B, SubSeq(q, 1, Len(q) - 1)), q[Len(q)])

SelectSeqBy(q, keep) == SelectSeq(q, LAMBDA u : u \in keep)

\* cleanupExpiredRequests()
CleanupExpiredRequests(B) ==
  LET inQueue == {B.requestQueue[i] : i \in 1..Len(B.requestQueue)}
      expiredRequests == {u \in inQueue : Expired(B, u)}
      B1 == SettleAll(B, expiredRequests, "Request expired in queue")
      B2 == [B1 EXCEPT !.requestQueue = SelectSeqBy(@, inQueue \ expiredRequests)]
  IN  ReleaseAll(B2, expiredRequests)

\* An addToQueue without the capacity check.
AddUnbounded(B, u) ==
  CleanupExpiredRequests(
    [B EXCEPT !.units[u].where = "queue",
              !.requestQueue = SortQueue([B EXCEPT !.units[u].where = "queue"],
                                         Append(@, u))])

\* An addToQueue that pushes the request and does not sort.
AddUnsorted(B, u) ==
  IF Len(B.requestQueue) >= B.config.maxQueueSize
  THEN SettleUnit(B, u, "Rate limiter queue is full. Try again later.")
  ELSE CleanupExpiredRequests([B EXCEPT !.units[u].where = "queue",
                                        !.requestQueue = Append(@, u)])

\* addToQueue(request)
AddToQueue(B, u) ==
  IF Len(B.requestQueue) >= B.config.maxQueueSize
  THEN SettleUnit(B, u, "Rate limiter queue is full. Try again later.")
  ELSE LET B1 == [B EXCEPT !.units[u].where = "queue",
                           !.requestQueue = Append(@, u)]
           B2 == [B1 EXCEPT !.requestQueue = SortQueue(B1, @)]
       IN  CleanupExpiredRequests(B2)

\* waitForAvailability(method): the milliseconds it sleeps, 0 when it
\* returns without sleeping.
WaitForAvailability(B, method) ==
  LET baseDelay == (1000 + B.config.maxRequestsPerSecond - 1) \div B.config.maxRequestsPerSecond
      waitTime == IF method \in B.state.blockedMethods /\ B.state.operatingResetAt # NoReset
                  THEN B.state.operatingResetAt
                  ELSE 0
  IN  IF waitTime > 0 THEN waitTime
      ELSE IF B.state.isBlocked THEN baseDelay
      ELSE 0

\* executeQueuedRequest(request) up to its await: incrementCounter() and
\* the call of the unit of work.
ExecuteQueuedRequest(B, u) ==
  [B EXCEPT !.state.requestCounter = @ + 1,
            !.decayRun = [from |-> B.state.requestCounter + 1, ticks |-> 0],
            !.served = IF B.units[u].invoked = 0 THEN Append(@, u) ELSE @,
            !.units[u] = [@ EXCEPT
               !.where = "inflight",
               !.invoked = @ + 1,
               !.belowBurst = @ /\ B.state.requestCounter < B.config.burstLimit,
               !.admitted = @ /\ CanMakeRequest(B, B.units[u].method).ok,
               !.inTime = @ /\ B.units[u].age <= B.config.queueTimeout]]

\* The while loop of processQueue(), from the test of its condition to its
\* next await or its exit.
ProcessQueueLoop(B) ==
  LET q == B.requestQueue
      k == Cardinality({i \in 1..Len(q) : \A j \in 1..i : Expired(B, q[j])})
      timedOut == {q[i] : i \in 1..k}
      B1 == ReleaseAll([SettleAll(B, timedOut, "Request timeout in queue")
                          EXCEPT !.requestQueue = SubSeq(q, k + 1, Len(q))],
                       timedOut)
  IN  IF k = Len(q)
      THEN [B1 EXCEPT !.processingQueue = FALSE, !.loop = IdleLoop]
      ELSE LET request == q[k + 1]
               r == CanMakeRequest(B1, B1.units[request].method)
           IN  IF ~r.ok
               THEN [r.B EXCEPT !.loop =
                       [pc |-> "sleeping",
                        left |-> WaitForAvailability(r.B, B1.units[request].method),
                        unit |-> 0]]
               ELSE ExecuteQueuedRequest(
                      [r.B EXCEPT !.requestQueue = Tail(@),
                                  !.loop = [pc |-> "executing", left |-> 0,
                                            unit |-> request]],
                      request)

\* processQueue()
ProcessQueue(B) ==
  IF B.processingQueue \/ Len(B.requestQueue) = 0
  THEN B
  ELSE ProcessQueueLoop([B EXCEPT !.processingQueue = TRUE])

\* The delay of the count after its increment.
DelayOfNextCount(B, retryCount) ==
  IF B.config.retryBackoffStrategy = "exponential"
  THEN B.config.retryBaseDelay * 2 ^ (retryCount + 1)
  ELSE B.config.retryBaseDelay * (retryCount + 2)

\* calculateRetryDelay(retryCount)
CalculateRetryDelay(B, retryCount) ==
  IF B.config.retryBackoffStrategy = "exponential"
  THEN B.config.retryBaseDelay * 2 ^ retryCount
  ELSE B.config.retryBaseDelay * (retryCount + 1)

\* processResponseTimeInfo(method, result)
ProcessResponseTimeInfo(B, method, result) ==
  IF result.operating = 0 THEN B
  ELSE LET s == B.state
           elapsed == s.operatingTimeWindow
           s1 == IF elapsed # WindowAtConstruction
                    /\ elapsed > B.config.operatingTimeWindow * 1000
                 THEN [s EXCEPT !.operatingTimeUsed = 0, !.operatingTimeWindow = 0]
                 ELSE s
           s2 == [s1 EXCEPT !.operatingTimeUsed = @ + result.operating]
           s3 == IF result.reset # NoReset
                 THEN [s2 EXCEPT !.operatingResetAt = result.reset]
                 ELSE s2
       IN  [B EXCEPT !.state = s3]

\* handleResourceLimitExceeded(method, error)
HandleResourceLimitExceeded(B, method, error) ==
  LET B1 == [B EXCEPT !.state.blockedMethods = @ \cup {method}]
  IN  IF error.reset # NoReset
      THEN [B1 EXCEPT !.state.operatingResetAt = error.reset,
                      !.blockUntil[method] = error.reset]
      ELSE B1

\* A handleRequestError that requeues every rate-limit failure.
AlwaysRequeue(B, u, error) ==
  IF error.rate
  THEN [B EXCEPT !.state.isBlocked = TRUE,
                 !.units[u].where = "timer",
                 !.units[u].left = B.config.retryBaseDelay]
  ELSE SettleUnit(Release(B, u), u, "other error")

\* A handleRequestError that retries a failure of any kind.
RequeueAnyError(B, u, error) ==
  IF B.config.enableRetry /\ B.units[u].retryCount < B.config.maxRetries
  THEN [B EXCEPT !.units[u].where = "timer",
                 !.units[u].left = B.config.retryBaseDelay]
  ELSE SettleUnit(Release(B, u), u, ErrorMessage(error))

\* handleRequestError(request, error)
HandleRequestError(B, u, error) ==
  LET B1 == IF error.rate THEN [B EXCEPT !.state.isBlocked = TRUE] ELSE B
  IN  IF NoMessage(error)
      THEN \* error.message.includes throws: no retry is scheduled and
           \* request.reject is not reached
           Release(B, u)
      ELSE
      IF /\ error.rate
         /\ B.config.enableRetry
         /\ B.units[u].retryCount < B.config.maxRetries
      THEN \* setTimeout(() => {...}, delay); return
           [B1 EXCEPT !.units[u].where = "timer",
                      !.units[u].left = CalculateRetryDelay(B, B.units[u].retryCount)]
      ELSE LET B2 == IF error.resource
                     THEN HandleResourceLimitExceeded(B1, B.units[u].method, error)
                     ELSE B1
           IN  SettleUnit(Release(B2, u), u, ErrorMessage(error))

Max(a, b) == IF a > b THEN a ELSE b
Min(a, b) == IF a < b THEN a ELSE b

\* A timer that is due runs before the clock is read at a later value.
TimerDue ==
  \/ decayTimer.active /\ decayTimer.due
  \/ loop.pc = "sleeping" /\ loop.left = 0
  \/ \E u \in Units : units[u].where = "timer" /\ units[u].left = 0

\* destroy() has been called.
Destroyed == ~decayTimer.active

\* processQueue's "await this.executeQueuedRequest(request)" has a settled
\* promise to resume from: the loop's next turn runs before any timer and
\* before the clock is read at a later value.
LoopTurnPending == loop.pc = "continuing"

-----------------------------------------------------------------------------
\* executeRequest(method, requestFn, priority)
Submit(u, priority) ==
  /\ units[u].where = "none"
  /\ ~units[u].submitted
  /\ \E B \in {[Cur EXCEPT !.units[u].submitted = TRUE,
                             !.units[u].late = Destroyed,
                             !.units[u].method = UnitMethod(u),
                             !.units[u].priority = priority]} :
       IF config.enableQueueing
       THEN \E B1 \in {AddToQueue(B, u)} : Commit(ProcessQueue(B1))
       ELSE Commit(ExecuteQueuedRequest(B, u))
  /\ UNCHANGED <<decayTimer, tmVars>>

\* The unit of work of an invoked request settles: the rest of
\* executeQueuedRequest.  When processQueue awaits it, the loop resumes in
\* a later microtask, and code queued before it runs first: the loop's turn
\* is pending.  The TypeError of handleRequestError leaves
\* executeQueuedRequest and, through the await, processQueue.
WorkSettle(u, result) ==
  /\ units[u].where = "inflight"
  /\ \E B \in {Cur} :
     \E B1 \in {IF result.ok
                THEN SettleUnit(
                       Release(ProcessResponseTimeInfo(B, units[u].method, result), u),
                       u, "resolved")
                ELSE HandleRequestError(B, u, result)} :
       IF loop.pc = "executing" /\ loop.unit = u
       THEN IF ~result.ok /\ NoMessage(result)
            THEN Commit([B1 EXCEPT !.loop = DeadLoop])
            ELSE Commit([B1 EXCEPT !.loop = [pc |-> "continuing", left |-> 0,
                                             unit |-> 0]])
       ELSE Commit(B1)
  /\ UNCHANGED <<decayTimer, tmVars>>

\* processQueue resumes from "await this.executeQueuedRequest(request)":
\* the loop's next turn.
LoopContinue ==
  /\ LoopTurnPending
  /\ Commit(ProcessQueueLoop(Cur))
  /\ UNCHANGED <<decayTimer, tmVars>>

\* The sleep of waitForAvailability ends: the loop's next turn.
SleepWake ==
  /\ ~LoopTurnPending
  /\ loop.pc = "sleeping"
  /\ loop.left = 0
  /\ Commit(ProcessQueueLoop(Cur))
  /\ UNCHANGED <<decayTimer, tmVars>>

\* The callback of handleRequestError's setTimeout.
RetryFire(u) ==
  /\ ~LoopTurnPending
  /\ units[u].where = "timer"
  /\ units[u].left = 0
  /\ \E B \in {[Cur EXCEPT !.units[u].where = "none",
                             !.units[u].retryCount = @ + 1]} :
     \E B1 \in {AddToQueue(B, u)} : Commit(ProcessQueue(B1))
  /\ UNCHANGED <<decayTimer, tmVars>>

\* A tick that lowers the counter by one whatever the rate.
DecayByOne ==
  /\ ~LoopTurnPending
  /\ decayTimer.active
  /\ decayTimer.due
  /\ LET c == Max(0, state.requestCounter - 1)
     IN  state' = [state EXCEPT !.requestCounter = c,
                                !.isBlocked = IF c = 0 THEN FALSE ELSE @]
  /\ decayRun' = [decayRun EXCEPT
                    !.ticks = IF state.requestCounter > 0 THEN @ + 1 ELSE @]
  /\ decayTimer' = [decayTimer EXCEPT !.due = FALSE]
  /\ UNCHANGED <<config, requestQueue, processingQueue, loop, units, served,
                 blockUntil, tmVars>>

\* The callback of startCounterDecrease's setInterval.
DecayTick ==
  /\ ~LoopTurnPending
  /\ decayTimer.active
  /\ decayTimer.due
  /\ LET c == IF state.requestCounter > 0
              THEN Max(0, state.requestCounter - config.maxRequestsPerSecond)
              ELSE state.requestCounter
     IN  state' = [state EXCEPT !.requestCounter = c,
                                !.isBlocked = IF c = 0 THEN FALSE ELSE @]
  /\ decayRun' = [decayRun EXCEPT
                    !.ticks = IF state.requestCounter > 0 THEN @ + 1 ELSE @]
  /\ decayTimer' = [decayTimer EXCEPT !.due = FALSE]
  /\ UNCHANGED <<config, requestQueue, processingQueue, loop, units, served,
                 blockUntil, tmVars>>

\* canMakeRequest(method), called from outside the limiter
CheckAdmission(method) ==
  /\ Commit(CanMakeRequest(Cur, method).B)
  /\ UNCHANGED <<decayTimer, tmVars>>

\* setEnterprisePlan()
SetEnterprisePlan ==
  /\ config' = [config EXCEPT !.maxRequestsPerSecond = 5, !.burstLimit = 250]
  /\ UNCHANGED <<state, requestQueue, processingQueue, decayTimer, loop, units,
                 served, blockUntil, decayRun, tmVars>>

\* setStandardPlan()
SetStandardPlan ==
  /\ config' = [config EXCEPT !.maxRequestsPerSecond = 2, !.burstLimit = 50]
  /\ UNCHANGED <<state, requestQueue, processingQueue, decayTimer, loop, units,
                 served, blockUntil, decayRun, tmVars>>

\* A destroy() that rejects the queued requests and leaves them in the queue.
RejectWithoutEmptying ==
  /\ decayTimer' = [active |-> FALSE, due |-> FALSE]
  /\ LET queued == {requestQueue[i] : i \in 1..Len(requestQueue)}
     IN  Commit(SettleAll(Cur, queued, "Rate limiter destroyed"))
  /\ UNCHANGED tmVars

\* destroy()
Destroy ==
  /\ decayTimer' = [active |-> FALSE, due |-> FALSE]
  /\ LET queued == {requestQueue[i] : i \in 1..Len(requestQueue)}
     IN  Commit(ReleaseAll([SettleAll(Cur, queued, "Rate limiter destroyed")
                              EXCEPT !.requestQueue = <<>>],
                           queued))
  /\ UNCHANGED tmVars

\* TimeStep milliseconds pass.
Advance ==
  /\ ~LoopTurnPending
  /\ ~TimerDue
  /\ units' = [u \in Units |->
       IF units[u].where \in {"queue", "inflight", "timer"}
       THEN [units[u] EXCEPT
               !.age = Min(@ + TimeStep, config.queueTimeout + TimeStep),
               !.left = Max(0, @ - TimeStep)]
       ELSE units[u]]
  /\ loop' = [loop EXCEPT !.left = Max(0, @ - TimeStep)]
  /\ state' = [state EXCEPT
       !.operatingResetAt = IF @ = NoReset THEN @ ELSE Max(0, @ - TimeStep),
       !.operatingTimeWindow =
          IF @ = WindowAtConstruction THEN @
          ELSE Min(@ + TimeStep, config.operatingTimeWindow * 1000 + TimeStep)]
  /\ blockUntil' = [m \in Methods |->
       IF blockUntil[m] = NoReset THEN NoReset ELSE Max(0, blockUntil[m] - TimeStep)]
  /\ decayTimer' = [decayTimer EXCEPT !.due = decayTimer.active]
  /\ UNCHANGED <<config, requestQueue, processingQueue, served, decayRun,
                 tmVars>>

\* The limiter after construction with one of the configurations given.
RlInitConfig(configs) ==
  /\ config \in configs
  /\ state = [requestCounter |-> 0,
              operatingTimeUsed |-> 0,
              operatingTimeWindow |-> WindowAtConstruction,
              operatingResetAt |-> NoReset,
              blockedMethods |-> {},
              isBlocked |-> FALSE]
  /\ requestQueue = <<>>
  /\ processingQueue = FALSE
  /\ decayTimer = [active |-> TRUE, due |-> FALSE]
  /\ loop = IdleLoop
  /\ units = [u \in Units |-> NewUnit]
  /\ served = <<>>
  /\ blockUntil = [m \in Methods |-> NoReset]
  /\ decayRun = [from |-> 0, ticks |-> 0]

RlInitRetry(queueing, retry, burst, queueSize, retries, strategies, timeout) ==
  RlInitConfig([maxRequestsPerSecond : {CfgMaxRequestsPerSecond},
                burstLimit : {burst},
                operatingTimeWindow : {CfgOperatingTimeWindow},
                enableRetry : retry,
                maxRetries : {retries},
                retryBackoffStrategy : strategies,
                retryBaseDelay : {CfgRetryBaseDelay},
                enableQueueing : queueing,
                maxQueueSize : {queueSize},
                queueTimeout : {timeout}])

RlInitCfg(queueing, retry, burstLimit, maxQueueSize) ==
  RlInitRetry(queueing, retry, burstLimit, maxQueueSize, CfgMaxRetries,
              {"exponential"}, CfgQueueTimeout)

\* The limiter after construction, with retries enabled.
RlInitWith(queueing, burstLimit, maxQueueSize) ==
  RlInitCfg(queueing, {TRUE}, burstLimit, maxQueueSize)

RlInit == RlInitWith(BOOLEAN, CfgBurstLimit, CfgMaxQueueSize)

RlNext ==
  \/ \E u \in 1..MaxUnits : \E p \in UnitPriorities(u) : Submit(u, p)
  \/ \E u \in Units, r \in WorkResults : WorkSettle(u, r)
  \/ LoopContinue
  \/ SleepWake
  \/ \E u \in Units : RetryFire(u)
  \/ DecayTick
  \/ \E m \in Methods : CheckAdmission(m)
  \/ Destroy
  \/ Advance

\* Time passes and the timers that are due fire.
TimePasses ==
  \/ Advance
  \/ LoopContinue
  \/ SleepWake
  \/ DecayTick
  \/ \E u \in Units : RetryFire(u)

\* An invoked unit of work settles.
WorkSettles == \E u \in Units, r \in WorkResults : WorkSettle(u, r)

RlPlanNext ==
  \/ RlNext
  \/ SetEnterprisePlan
  \/ SetStandardPlan

\* Failures that name neither a rate limit nor a resource limit.
OtherErrors ==
  {r \in WorkResults : ~r.ok /\ ~r.rate /\ ~r.resource /\ ~NoMessage(r)}

\* Results of a unit of work that do not throttle the limiter.
PlainResults == {r \in WorkResults : ~r.rate /\ ~r.resource}

\* The constructor's defaults for burstLimit and maxQueueSize.
DefaultBurstLimit == 50
DefaultMaxQueueSize == 1000

\* executeRequest called for unit u right behind the calls for the units
\* before it: nothing has settled and no time has passed since the first call.
BurstSubmit(u, priority) ==
  /\ \A v \in Units : v < u => units[v].submitted
  /\ \A v \in Units : units[v].submitted =>
        /\ units[v].where \in {"queue", "inflight"}
        /\ units[v].age = 0
  /\ Submit(u, priority)

BurstInit == RlInitWith({TRUE}, DefaultBurstLimit, DefaultMaxQueueSize)

BurstNext ==
  \/ \E u \in 1..BurstUnits, p \in Priorities : BurstSubmit(u, p)
  \/ \E u \in Units, r \in PlainResults : WorkSettle(u, r)
  \/ LoopContinue
  \/ DecayTick
  \/ Advance

-----------------------------------------------------------------------------
(***************************************************************************)
(* Specifications                                                          *)
(***************************************************************************)

\* The token manager under every interleaving of its operations.
InitTM == TmInit /\ RlInitWith({TRUE}, CfgBurstLimit, CfgMaxQueueSize)

SpecTM == InitTM /\ [][TmNext]_vars

\* Calls of getValidToken() with a credential set inside the refresh margin,
\* while the token endpoint answers or fails and the clock moves.
JoinTokens == {MkTokens(2, TRUE, 300, TRUE)}
JoinResponses == {"ok", "server_error"}

JoinNext ==
  \/ \E c \in Callers : GetValidTokenUsing(c, PromiseIds)
  \/ \E p \in PromiseIds, resp \in JoinResponses : RefreshSettle(p, resp)
  \/ \E c \in Callers : Resume(c)
  \/ \E t \in JoinTokens : SetTokens(t)
  \/ TmTick

SpecJoin == InitTM /\ [][JoinNext]_vars

\* The rate limiter under every interleaving of its operations.
InitRL == TmInit /\ RlInit

SpecRL == InitRL /\ [][RlNext]_vars

\* The rate limiter with plan changes.
SpecRLPlan == InitRL /\ [][RlPlanNext]_vars

\* The operations of the rate limiter on requests of one priority.
FairNext ==
  \/ \E u \in 1..MaxUnits : Submit(u, 0)
  \/ \E u \in Units, r \in WorkResults : WorkSettle(u, r)
  \/ LoopContinue
  \/ SleepWake
  \/ \E u \in Units : RetryFire(u)
  \/ DecayTick
  \/ \E m \in Methods : CheckAdmission(m)
  \/ Destroy
  \/ Advance

\* The rate limiter when time passes, timers fire and every invoked unit of
\* work settles.
SpecRLFair ==
  /\ InitRL
  /\ [][FairNext]_vars
  /\ WF_vars(TimePasses)
  /\ WF_vars(WorkSettles)

\* Units submitted back-to-back to an idle limiter that is never throttled.
InitBurst == TmInit /\ BurstInit

SpecBurst == InitBurst /\ [][BurstNext]_vars

\* The error handler under every outcome of its operation and its hooks.
InitEH ==
  /\ TmInitOwn
  /\ RlInit
  /\ EhInitWith(0..MaxHandlerRetries, {250, 1000})

SpecEH == InitEH /\ [][EhNext]_vars

\* The error handler when every awaited promise settles and timers fire.
SpecEHFair == SpecEH /\ WF_vars(EhProgress)

InitRetry == TmInit /\ RlInitCfg(BOOLEAN, BOOLEAN, CfgBurstLimit, CfgMaxQueueSize)

\* The rate limiter with retries enabled or disabled.
SpecRetry == InitRetry /\ [][RlNext]_vars

\* The units of work of the SDK's apiCall, which throw the BitrixError that
\* ErrorMapper makes of the transport's error body.
ClassifiedNext ==
  \/ \E u \in 1..MaxUnits : \E p \in UnitPriorities(u) : Submit(u, p)
  \/ \E u \in Units, r \in ClassifiedResults : WorkSettle(u, r)
  \/ LoopContinue
  \/ SleepWake
  \/ \E u \in Units : RetryFire(u)
  \/ DecayTick
  \/ Advance

InitClassified == TmInit /\ RlInitCfg(BOOLEAN, BOOLEAN, CfgBurstLimit, CfgMaxQueueSize)

SpecClassified == InitClassified /\ [][ClassifiedNext]_vars

\* The limiter with units of work that run out of operating time.
ResourceNext ==
  \/ \E u \in 1..MaxUnits : \E p \in UnitPriorities(u) : Submit(u, p)
  \/ \E u \in Units, r \in PlainResults \cup ResourceErrors : WorkSettle(u, r)
  \/ LoopContinue
  \/ SleepWake
  \/ \E u \in Units : RetryFire(u)
  \/ DecayTick
  \/ \E m \in Methods : CheckAdmission(m)
  \/ Advance

InitResource == TmInit /\ RlInit

SpecResource == InitResource /\ [][ResourceNext]_vars

\* Three requests, for the methods X, Y and X, whose work ends with a
\* resource-exhausted failure or with a response that carries a reset figure.
BlockResults == {r \in WorkResults : r.resource \/ (r.ok /\ r.operating # 0)}

BlocksNext ==
  \/ \E u \in 1..BurstUnits : \E p \in UnitPriorities(u) : Submit(u, p)
  \/ \E u \in Units, r \in BlockResults : WorkSettle(u, r)
  \/ LoopContinue
  \/ SleepWake
  \/ DecayTick
  \/ \E m \in Methods : CheckAdmission(m)
  \/ Advance

InitBlocks == TmInit /\ RlInit

SpecBlocks == InitBlocks /\ [][BlocksNext]_vars

\* Requests that meet the rate limit again and again, under either
\* backoff strategy and the constructor's default of three retries, with a
\* queue timeout that outlasts the three delays.
DefaultLimiterMaxRetries == 3
BackoffQueueTimeout == 10000
RateLimitResults == {r \in WorkResults : r.ok \/ r.rate}

BackoffNext ==
  \/ \E u \in 1..MaxUnits : \E p \in UnitPriorities(u) : Submit(u, p)
  \/ \E u \in Units, r \in RateLimitResults : WorkSettle(u, r)
  \/ LoopContinue
  \/ SleepWake
  \/ \E u \in Units : RetryFire(u)
  \/ DecayTick
  \/ Advance

InitBackoff ==
  /\ TmInit
  /\ RlInitRetry(BOOLEAN, {TRUE}, CfgBurstLimit, CfgMaxQueueSize,
                 DefaultLimiterMaxRetries, {"exponential", "linear"},
                 BackoffQueueTimeout)

SpecBackoff == InitBackoff /\ [][BackoffNext]_vars

\* Ten requests made one after the other, each when the one before it has
\* settled, through a limiter with the constructor's defaults for
\* maxRequestsPerSecond and burstLimit that neither queues nor retries.
DecayUnits == 10
DefaultMaxRequestsPerSecond == 2

\* Their units of work report operating time or meet the rate limit.
DecayResults == {r \in WorkResults : (r.ok /\ r.operating > 0) \/ r.rate}

DecaySubmit(u) ==
  /\ \A v \in Units : v < u => units[v].submitted /\ units[v].where = "none"
  /\ Submit(u, 0)

DecayNext ==
  \/ \E u \in 1..DecayUnits : DecaySubmit(u)
  \/ \E u \in Units, r \in DecayResults : WorkSettle(u, r)
  \/ DecayTick
  \/ Advance

InitDecay ==
  /\ TmInit
  /\ RlInitConfig([maxRequestsPerSecond : {DefaultMaxRequestsPerSecond},
                   burstLimit : {DefaultBurstLimit},
                   operatingTimeWindow : {CfgOperatingTimeWindow},
                   enableRetry : {FALSE},
                   maxRetries : {CfgMaxRetries},
                   retryBackoffStrategy : {"exponential"},
                   retryBaseDelay : {CfgRetryBaseDelay},
                   enableQueueing : {FALSE},
                   maxQueueSize : {DefaultMaxQueueSize},
                   queueTimeout : {CfgQueueTimeout}])

SpecDecay == InitDecay /\ [][DecayNext]_vars

\* A limiter whose operating window of one second is shorter than the
\* time its units of work take.
ShortOperatingTimeWindow == 1

WindowNext ==
  \/ \E u \in 1..MaxUnits : \E p \in UnitPriorities(u) : Submit(u, p)
  \/ \E u \in Units, r \in PlainResults : WorkSettle(u, r)
  \/ LoopContinue
  \/ DecayTick
  \/ Advance

InitWindow ==
  /\ TmInit
  /\ RlInitConfig([maxRequestsPerSecond : {CfgMaxRequestsPerSecond},
                   burstLimit : {CfgBurstLimit},
                   operatingTimeWindow : {ShortOperatingTimeWindow},
                   enableRetry : {TRUE},
                   maxRetries : {CfgMaxRetries},
                   retryBackoffStrategy : {"exponential"},
                   retryBaseDelay : {CfgRetryBaseDelay},
                   enableQueueing : BOOLEAN,
                   maxQueueSize : {CfgMaxQueueSize},
                   queueTimeout : {CfgQueueTimeout}])

SpecWindow == InitWindow /\ [][WindowNext]_vars

\* Ten low-priority requests and one high-priority request made back-to-back
\* in any order, through a queueing limiter with burstLimit 2 and one
\* request per second.
LowPriority == 0
HighPriority == 100

HighUnits == {u \in Units : units[u].submitted /\ units[u].priority = HighPriority}

PrioritySubmit(u, priority) ==
  /\ priority = HighPriority => HighUnits = {}
  /\ priority = LowPriority => HighUnits # {} \/ u < ScenarioUnits
  /\ BurstSubmit(u, priority)

\* Their units of work resolve or meet the rate limit.
PriorityResults == {r \in WorkResults : (r.ok /\ r.operating = 0) \/ r.rate}

PriorityNext ==
  \/ \E u \in Units, p \in {LowPriority, HighPriority} : PrioritySubmit(u, p)
  \/ \E u \in Units, r \in PriorityResults : WorkSettle(u, r)
  \/ LoopContinue
  \/ SleepWake
  \/ \E u \in Units : RetryFire(u)
  \/ DecayTick
  \/ Advance

InitPriority ==
  /\ TmInit
  /\ RlInitCfg({TRUE}, BOOLEAN, CfgBurstLimit, DefaultMaxQueueSize)

SpecPriority == InitPriority /\ [][PriorityNext]_vars

\* A queue so small that back-to-back submissions and requeued retries find
\* it full.
SmallQueueSize == 1

InitBackpressure == TmInit /\ RlInitWith(BOOLEAN, CfgBurstLimit, SmallQueueSize)

BackpressureNext ==
  \/ \E u \in 1..BurstUnits : \E p \in UnitPriorities(u) : BurstSubmit(u, p)
  \/ \E u \in Units, r \in WorkResults : WorkSettle(u, r)
  \/ LoopContinue
  \/ SleepWake
  \/ \E u \in Units : RetryFire(u)
  \/ DecayTick
  \/ Advance

\* Units submitted back-to-back to a limiter whose queue holds one request.
SpecBackpressure == InitBackpressure /\ [][BackpressureNext]_vars

\* Three requests to a queueing limiter whose queue holds one request and
\* which may be destroyed at any time; the work ends with a result, a
\* rate-limit failure or another failure.
SettleResults == {r \in WorkResults : r.operating = 0 /\ ~r.resource}

SettleNext ==
  \/ \E u \in 1..BurstUnits : \E p \in UnitPriorities(u) : Submit(u, p)
  \/ \E u \in Units, r \in SettleResults : WorkSettle(u, r)
  \/ LoopContinue
  \/ SleepWake
  \/ \E u \in Units : RetryFire(u)
  \/ DecayTick
  \/ Destroy
  \/ Advance

InitSettle == TmInit /\ RlInitWith({TRUE}, CfgBurstLimit, SmallQueueSize)

SpecSettle == InitSettle /\ [][SettleNext]_vars

-----------------------------------------------------------------------------
(***************************************************************************)
(* Properties of the token manager                                         *)
(***************************************************************************)

\* The callers whose getValidToken() call went through the refresh p.
Through(p) == {c \in Callers : callers[c].promise = p}

\* The refresh p is the one started last.
Latest(p) ==
  /\ promises[p].state # "unused"
  /\ \A q \in PromiseIds : q > p => promises[q].state = "unused"

\* More than one caller joined the refresh p, the one started last, and no
\* setTokens/clearTokens ran while it was awaited.
JoinedRefresh(p) ==
  /\ ~disturbed
  /\ Latest(p)
  /\ Cardinality(Through(p)) >= 2
  /\ \A c \in Through(p) : callers[c].pc \in {"awaiting", "returned"}

\* The callers that wait for a refresh which has not settled.
AwaitingPending == {c \in Awaiting : promises[callers[c].promise].state = "pending"}

\* C1: when two or more getValidToken() calls start inside the refresh
\* margin before the refresh settles, the token endpoint is called exactly
\* once, every caller waits for that one call, and every caller that has
\* returned holds the access token of the refreshed credential set.
SingleFlightRefresh ==
  /\ ~disturbed =>
       \A c, d \in AwaitingPending : callers[c].promise = callers[d].promise
  /\ \A p \in PromiseIds :
       JoinedRefresh(p) /\ promises[p].state \in {"pending", "fulfilled"} =>
         /\ \A c \in AwaitingPending : callers[c].promise = p
         /\ \A c \in Through(p) :
              callers[c].pc = "returned" =>
                callers[c].result = RefreshedTokens(p).access_token

\* C2: at every moment at most one refresh call of the token manager is in
\* flight.
AtMostOneRefreshInFlight == Cardinality(InFlight) <= 1

-----------------------------------------------------------------------------
(***************************************************************************)
(* Properties of the rate limiter                                          *)
(***************************************************************************)

Settled(u) == units[u].outcome # "none"

\* C3: every unit handed to executeRequest eventually has its future
\* resolved or rejected, when time passes, timers fire and every invocation
\* of a unit of work settles.
EveryUnitSettles ==
  \A u \in 1..MaxUnits : units[u].submitted ~> Settled(u)

\* C4: the counter stays between 0 and burstLimit.
CounterWithinBurst ==
  /\ 0 <= state.requestCounter
  /\ state.requestCounter <= config.burstLimit

\* C5: once the counter has reached burstLimit canMakeRequest refuses every
\* method, and every invocation of a unit of work found the counter below
\* burstLimit.
InvokedBelowBurst ==
  /\ state.requestCounter >= config.burstLimit =>
       \A m \in Methods : ~CanMakeRequest(Cur, m).ok
  /\ \A u \in Units : units[u].belowBurst

\* C6: with queueing disabled a unit of work is invoked only when its
\* method is admitted.
InlineWaitsForAdmission ==
  ~config.enableQueueing => \A u \in Units : units[u].admitted

\* The method's last resource-exhausted failure named a reset instant that
\* has not come yet.
BlockPending(m) == blockUntil[m] # NoReset /\ blockUntil[m] > 0

\* C7: canMakeRequest(method) is true exactly when the counter is below
\* burstLimit and the method is not blocked, a block counting until the
\* reset instant of the method.
AdmitIffNotBlocked ==
  \A m \in Methods :
    CanMakeRequest(Cur, m).ok <=>
      /\ state.requestCounter < config.burstLimit
      /\ ~(m \in state.blockedMethods /\ BlockPending(m))

\* C8: after a resource-exhausted failure of a method with reset instant R,
\* canMakeRequest refuses the method before R and, the counter permitting,
\* admits it from R on.
BlockedUntilReset ==
  \A m \in Methods :
    blockUntil[m] # NoReset =>
      /\ blockUntil[m] > 0 => ~CanMakeRequest(Cur, m).ok
      /\ blockUntil[m] = 0 /\ state.requestCounter < config.burstLimit =>
           CanMakeRequest(Cur, m).ok

\* a is served before b by priority descending, then submission ascending
ServedBefore(a, b) ==
  \/ units[a].priority > units[b].priority
  \/ units[a].priority = units[b].priority /\ a < b

AllServed == Len(served) = BurstUnits

\* C9, as stated: units submitted back-to-back to an idle limiter are all
\* invoked in the order of priority descending, then submission ascending.
ServedByPriority ==
  AllServed =>
    \A i, j \in 1..Len(served) : i < j => ServedBefore(served[i], served[j])

\* C9, amended: the unit submitted first to the idle limiter is invoked at
\* once; the units queued behind it are invoked in the order of priority
\* descending, then submission ascending.
ServedFirstThenByPriority ==
  /\ Len(served) >= 1 => served[1] = 1
  /\ AllServed =>
       \A i, j \in 2..Len(served) : i < j => ServedBefore(served[i], served[j])

\* Priorities 0, 100, -100 submitted in that order were served in the order
\* 0, 100, -100.
ServedFirstThenByPriorityWitness ==
  /\ AllServed
  /\ units[1].priority = 0
  /\ units[2].priority = 100
  /\ units[3].priority = -100
  /\ SubSeq(served, 1, 3) = <<1, 2, 3>>

TimeoutMessages == {"Request timeout in queue", "Request expired in queue"}

QueuedTooLong(u) ==
  units[u].where = "queue" /\ units[u].age > config.queueTimeout

\* C10: a queued unit older than queueTimeout is not invoked and leaves the
\* queue only rejected, with a queue-timeout error unless destroy() rejects
\* it first; a unit rejected for its age is never invoked again; and no unit
\* of work was ever invoked when its unit was older than queueTimeout.
QueueTimeoutEnforced ==
  /\ [](\A u \in Units : units[u].inTime)
  /\ [][\A u \in Units :
          /\ QueuedTooLong(u) =>
               /\ units'[u].invoked = units[u].invoked
               /\ units'[u].where # "queue" =>
                    units'[u].outcome \in
                      TimeoutMessages \cup {"Rate limiter destroyed"}
          /\ units[u].outcome \in TimeoutMessages =>
               units'[u].invoked = units[u].invoked]_vars

\* A unit requeued after a rate-limit failure has been rejected for its age.
QueueTimeoutEnforcedWitness ==
  \E u \in Units :
    /\ units[u].retryCount = 1
    /\ units[u].invoked = 1
    /\ units[u].outcome \in TimeoutMessages

QueueFullMessage == "Rate limiter queue is full. Try again later."

\* This step hands unit u to addToQueue: executeRequest with queueing
\* enabled, or the callback of its retry timer.
Arrives(u) ==
  \/ config.enableQueueing /\ ~units[u].submitted /\ units'[u].submitted
  \/ units[u].where = "timer" /\ units'[u].where # "timer"

\* C11: the queue never holds more than maxQueueSize requests; a submission
\* or a requeued retry that finds it full is rejected with the queue-full
\* error, leaves the queue as it was and does not get its work invoked.
QueueFullRejects ==
  /\ [](Len(requestQueue) <= config.maxQueueSize)
  /\ [][\A u \in Units :
          Arrives(u) /\ Len(requestQueue) >= config.maxQueueSize =>
            /\ requestQueue' = requestQueue
            /\ units'[u].outcome = QueueFullMessage
            /\ units'[u].settleCount = 1
            /\ units'[u].where = "none"
            /\ units'[u].invoked = units[u].invoked]_vars

\* One unit was turned away at submission and another when its retry was
\* requeued, each by a full queue.
QueueFullRejectsWitness ==
  /\ \E u \in Units :
       /\ units[u].outcome = QueueFullMessage
       /\ units[u].invoked = 0
  /\ \E u \in Units :
       /\ units[u].outcome = QueueFullMessage
       /\ units[u].retryCount = 1

RateLimitMessage == "QUERY_LIMIT_EXCEEDED"

\* C12: a rate-limit failure of an invoked unit is requeued, unsettled, by a
\* timer of the backoff delay exactly when retries are enabled and
\* retryCount < maxRetries, and the timer's callback hands the same unit to
\* the queue with retryCount + 1; otherwise the future is rejected with the
\* error.  No unit of work is invoked more than maxRetries + 1 times.  An
\* invoked unit leaves the invocation for the timer or settled, unless its
\* work rejected with a value without a message.
RateLimitRetry ==
  /\ [](\A u \in Units :
          /\ units[u].retryCount <= config.maxRetries
          /\ units[u].invoked <= config.maxRetries + 1
          /\ units[u].where = "timer" => ~Settled(u))
  /\ [][\A u \in Units :
          /\ units[u].where = "inflight" /\ units'[u].where = "timer" =>
               /\ config.enableRetry
               /\ units[u].retryCount < config.maxRetries
               /\ units'[u].retryCount = units[u].retryCount
               /\ units'[u].left = CalculateRetryDelay(Cur, units[u].retryCount)
               /\ ~Settled(u)'
          /\ ~Settled(u) /\ units'[u].outcome = RateLimitMessage =>
               /\ units[u].where = "inflight"
               /\ units'[u].where = "none"
               /\ ~config.enableRetry \/ units[u].retryCount = config.maxRetries
          /\ units[u].where = "inflight" /\ units'[u].where # "inflight" =>
               \/ units'[u].where = "timer"
               \/ units'[u].where = "none" /\ Settled(u)'
               \/ \E r \in WorkResults : NoMessage(r) /\ WorkSettle(u, r)
          /\ units[u].where = "timer" /\ units'[u].where # "timer" =>
               /\ units[u].left = 0
               /\ units'[u].retryCount = units[u].retryCount + 1
               /\ \/ units'[u].where \in {"queue", "inflight"} /\ ~Settled(u)'
                  \/ units'[u].where = "none" /\ Settled(u)']_vars

\* A unit was invoked again after its first rate-limit failure and rejected
\* with the error after its second.
RateLimitRetryWitness ==
  \E u \in Units :
    /\ config.enableRetry
    /\ units[u].retryCount = config.maxRetries
    /\ units[u].invoked = config.maxRetries + 1
    /\ units[u].outcome = RateLimitMessage

\* The messages of the errors that isRateLimitError() classifies as rate
\* limiting.
RateLimitClassMessages ==
  {MapApiError(e).message : e \in {r \in ApiErrorResponses : IsRateLimitError(MapApiError(r))}}

\* C13: a failure whose canonical code is QUERY_LIMIT_EXCEEDED or
\* OVERLOAD_LIMIT, whatever its message, reaches the caller of executeRequest
\* only when the limiter's retries are disabled or exhausted.
RateLimitClassRetried ==
  \A u \in Units :
    units[u].outcome \in RateLimitClassMessages =>
      ~config.enableRetry \/ units[u].retryCount >= config.maxRetries

\* C14: when the work of an invoked unit fails with a resource-exhausted
\* error, its method is in blockedMethods, operatingResetAt is the instant
\* the error names, and the unit's future is rejected with the error at
\* once; the unit is not queued again and its work is not invoked again.
ResourceErrorRejects ==
  [][\A u \in Units :
       /\ \A r \in ResourceErrors :
            WorkSettle(u, r) =>
              /\ units[u].method \in state'.blockedMethods
              /\ state'.operatingResetAt = r.reset
              /\ units'[u].where = "none"
              /\ Settled(u)'
              /\ units'[u].outcome = r.message
              /\ units'[u].invoked = units[u].invoked
       /\ Settled(u) => /\ units'[u].where = "none"
                        /\ units'[u].invoked = units[u].invoked]_vars

\* The work of unit u fails with error r, which names neither limit: the
\* future is rejected with r at once, the unit is in no queue and on no
\* timer, retryCount is unchanged, the handler leaves the throttle state
\* alone and no method is added to blockedMethods.
OtherErrorHandled(u, r) ==
  WorkSettle(u, r) =>
    /\ ~Settled(u) /\ Settled(u)'
    /\ units'[u].outcome = ErrorMessage(r)
    /\ units'[u].where = "none"
    /\ units'[u].retryCount = units[u].retryCount
    /\ units'[u].invoked = units[u].invoked
    /\ HandleRequestError(Cur, u, r).state = state
    /\ state'.blockedMethods \subseteq state.blockedMethods

DestroyedMessage == "Rate limiter destroyed"

InQueue(u) == \E i \in 1..Len(requestQueue) : requestQueue[i] = u

\* C16: destroy() stops the decay timer, rejects the future of every unit
\* that is in the queue with 'Rate limiter destroyed' and leaves the queue
\* empty; the units that are not in the queue are left alone; a destroy()
\* that follows changes nothing, and no future is settled twice.
DestroyRejectsQueued ==
  /\ [](\A u \in Units : units[u].settleCount <= 1)
  /\ [](Destroyed /\ requestQueue = <<>> => ~ENABLED (Destroy /\ vars' # vars))
  /\ [][Destroy =>
         /\ ~decayTimer'.active
         /\ requestQueue' = <<>>
         /\ \A u \in Units :
              IF InQueue(u)
              THEN /\ units'[u].outcome = DestroyedMessage
                   /\ units'[u].settleCount = 1
                   /\ units'[u].where = "none"
              ELSE units'[u] = units[u]]_vars

\* destroy() was called with one unit in the queue and another one's work
\* in flight.
DestroyRejectsQueuedWitness ==
  /\ Destroyed
  /\ requestQueue = <<>>
  /\ \E u \in Units : units[u].outcome = DestroyedMessage
  /\ \E u \in Units : units[u].where = "inflight"

\* The answers of the token endpoint that reject the refresh token:
\* {error: 'invalid_grant'}, and another error code whose description names
\* invalid_grant.
InvalidGrantResponses == {"invalid_grant", "described_invalid_grant"}

\* The messages that tell the caller to authenticate again.
ReauthRequiredMessages ==
  {"Refresh token expired. Re-authentication required.",
   "Refresh token expired or invalid. Re-authentication required."}

\* C17: when the token endpoint rejects the refresh token (invalid_grant),
\* the manager holds no tokens and no issued-at instant once the refresh has
\* failed, and the getValidToken() calls that awaited the refresh throw a
\* re-authentication-required error.
InvalidGrantClearsTokens ==
  [][/\ \A p \in PromiseIds, resp \in InvalidGrantResponses :
          RefreshSettle(p, resp) =>
            /\ tokens' = NoTokens
            /\ tokenIssuedAt' = Null
            /\ promises'[p].error \in ReauthRequiredMessages
     /\ \A c \in Callers :
          /\ Resume(c)
          /\ promises[callers[c].promise].error \in ReauthRequiredMessages
          => /\ callers'[c].pc = "threw"
             /\ callers'[c].result \in ReauthRequiredMessages]_vars

\* The answers of the token endpoint that fail the refresh for another
\* reason than a rejected refresh token, and the errors made of them.
OtherRefreshFailures == RefreshResponses \ ({"ok"} \cup InvalidGrantResponses)
OtherFailureMessages == {OAuthRefreshError(resp) : resp \in OtherRefreshFailures}

\* C18: when a refresh fails for another reason than a rejected refresh
\* token, refreshTokens leaves the tokens and their issued-at instant as they
\* are and rejects with the error of the token endpoint call; getValidToken
\* rethrows that error and clears refreshPromise; and a getValidToken() call
\* that finds refreshPromise cleared and the token still expiring calls the
\* token endpoint again.
OtherFailureKeepsTokens ==
  [][/\ \A p \in PromiseIds, resp \in OtherRefreshFailures :
          RefreshSettle(p, resp) =>
            /\ tokens' = tokens
            /\ tokenIssuedAt' = tokenIssuedAt
            /\ promises'[p].state = "rejected"
            /\ promises'[p].error = OAuthRefreshError(resp)
     /\ \A c \in Callers :
          /\ Resume(c)
          /\ promises[callers[c].promise].state = "rejected"
          /\ promises[callers[c].promise].error \in OtherFailureMessages
          => /\ callers'[c].pc = "threw"
             /\ callers'[c].result = promises[callers[c].promise].error
             /\ tokens' = tokens
             /\ tokenIssuedAt' = tokenIssuedAt
             /\ refreshPromise' = Null
     /\ \A c \in Callers :
          /\ GetValidToken(c)
          /\ refreshPromise = Null
          /\ tokens # NoTokens
          /\ IsTokenExpiringSoon
          /\ tokens.refresh_token
          => /\ callers'[c].pc = "awaiting"
             /\ promises[callers'[c].promise].state = "unused"
             /\ promises'[callers'[c].promise].state = "pending"
             /\ refreshPromise' = callers'[c].promise]_vars

\* The first refresh failed with a server error and its caller got that
\* error; the tokens are the ones held before, and the next call awaits a
\* second refresh.
OtherFailureKeepsTokensWitness ==
  \E c, d \in Callers :
    /\ callers[c].pc = "threw"
    /\ callers[c].promise = 1
    /\ callers[c].result \in OtherFailureMessages
    /\ callers[d].pc = "awaiting"
    /\ callers[d].promise = 2
    /\ refreshPromise = 2
    /\ ~disturbed
    /\ tokens # NoTokens

\* C19: with tokens issued at tokenIssuedAt that expire in expires_in seconds
\* and carry a refresh token, getValidToken() at time tmNow returns the held
\* access token and calls nothing when tmNow < tokenIssuedAt + expires_in -
\* 300; otherwise it awaits a refresh, which it starts unless one is in
\* flight.
RefreshAtMargin ==
  [][\A c \in Callers :
       /\ GetValidToken(c)
       /\ tokens # NoTokens
       /\ tokenIssuedAt # Null
       /\ tokens.refresh_token
       => IF tmNow < tokenIssuedAt + tokens.expires_in - 300
          THEN /\ callers'[c].pc = "returned"
               /\ callers'[c].result = tokens.access_token
               /\ promises' = promises
               /\ refreshPromise' = refreshPromise
          ELSE /\ callers'[c].pc = "awaiting"
               /\ IF refreshPromise = Null
                  THEN /\ promises[callers'[c].promise].state = "unused"
                       /\ promises'[callers'[c].promise].state = "pending"
                       /\ refreshPromise' = callers'[c].promise
                  ELSE /\ callers'[c].promise = refreshPromise
                       /\ promises' = promises]_vars

\* One call returned the held token before the margin began; the call made
\* at the instant tokenIssuedAt + expires_in - 300 awaits a refresh.
RefreshAtMarginWitness ==
  \E c, d \in Callers :
    /\ tokens # NoTokens
    /\ callers[c].pc = "returned"
    /\ callers[c].promise = Null
    /\ callers[c].result = tokens.access_token
    /\ callers[d].pc = "awaiting"
    /\ promises[callers[d].promise].state = "pending"
    /\ tokenIssuedAt < tmNow
    /\ tmNow = tokenIssuedAt + tokens.expires_in - 300

NoCredentialsMessage == "No tokens available"
CredentialsExpiredMessage == "Access token expired"

\* C20: getValidToken() throws the no-tokens error when no tokens are held;
\* when the token is inside the refresh margin and the set has no refresh
\* token it throws the token-expired error after invoking onTokenExpired,
\* starts no refresh and leaves the tokens as they are.  No other call
\* invokes onTokenExpired.
NoRefreshTokenFails ==
  [][\A c \in Callers :
       GetValidToken(c) =>
         /\ tokens = NoTokens =>
              /\ callers'[c].pc = "threw"
              /\ callers'[c].result = NoCredentialsMessage
              /\ promises' = promises
              /\ refreshPromise' = refreshPromise
         /\ tokens # NoTokens /\ IsTokenExpiringSoon /\ ~tokens.refresh_token =>
              /\ callers'[c].pc = "threw"
              /\ callers'[c].result = CredentialsExpiredMessage
              /\ callers'[c].expiredHook
              /\ promises' = promises
              /\ refreshPromise' = refreshPromise
              /\ episodeCalls' = episodeCalls
              /\ tokens' = tokens
              /\ tokenIssuedAt' = tokenIssuedAt
         /\ callers'[c].expiredHook =>
              tokens # NoTokens /\ IsTokenExpiringSoon /\ ~tokens.refresh_token]_vars

\* One call found no tokens; a later call found a token without a refresh
\* token inside the margin, which is still held.
NoRefreshTokenFailsWitness ==
  \E c, d \in Callers :
    /\ callers[c].pc = "threw"
    /\ callers[c].result = NoCredentialsMessage
    /\ callers[d].pc = "threw"
    /\ callers[d].result = CredentialsExpiredMessage
    /\ callers[d].expiredHook
    /\ tokens # NoTokens
    /\ ~tokens.refresh_token
    /\ IsTokenExpiringSoon

\* The token sets the claim calls malformed: access_token missing, domain
\* missing, or expires_in missing, not a number or not positive.
Malformed(t) ==
  \/ t.access_token = 0
  \/ ~t.domain
  \/ "expires_in_type" \in DOMAIN t
  \/ t.expires_in <= 0

\* C21: setTokens(t) throws for a malformed t and leaves the held tokens and
\* their issued-at instant as they were; for any other t it returns, holds t
\* and has stamped tokenIssuedAt with the present second.
SetTokensValidates ==
  [][\A t \in TokenInputs :
       SetTokens(t) =>
         IF Malformed(t)
         THEN /\ setTokensError' # ""
              /\ tokens' = tokens
              /\ tokenIssuedAt' = tokenIssuedAt
         ELSE /\ setTokensError' = ""
              /\ tokens' = t
              /\ tokenIssuedAt' = tmNow]_vars

\* Tokens set earlier are still held, with their issued-at instant, after a
\* setTokens() call that threw.
SetTokensValidatesWitness ==
  /\ setTokensError # ""
  /\ tokens # NoTokens
  /\ tokenIssuedAt # Null
  /\ tokenIssuedAt < tmNow

-----------------------------------------------------------------------------
(***************************************************************************)
(* Properties of the error handler and the error mapper                    *)
(***************************************************************************)

\* The entries of the log that record the event.
Events(event) == SelectSeq(handlerLog, LAMBDA e : e.event = event)

Finished == handler.pc \in {"returned", "threw"}

\* C22: handleWithRetry invokes the operation at most maxRetries + 1 times
\* and ends when every awaited promise settles; it returns at the first
\* invocation that resolves and invokes nothing after it; a failure that is
\* not retryable (whatever is thrown that is not a BitrixError is wrapped as
\* UNKNOWN_ERROR, not retryable)
\* is thrown at once, with no hook call and no sleep; the failure of
\* invocation maxRetries + 1 is thrown.
BoundedRetries ==
  /\ [](Len(Events("operation")) <= handler.maxRetries + 1)
  /\ (handler.pc # "idle" ~> Finished)
  /\ [][/\ Finished => handler' = handler /\ handlerLog' = handlerLog
        /\ \A o \in Outcomes :
             OperationSettles(o) =>
               IF o.kind = "result"
               THEN handler'.pc = "returned" /\ handlerLog' = handlerLog
               ELSE LET error == EnsureBitrixError(ThrownBy(o))
                    IN  /\ o.kind \in {"Error", "EmptyError", "Nullish"} =>
                             error.code = "UNKNOWN_ERROR" /\ ~error.isRetryable
                        /\ ~error.isRetryable \/ handler.attempt = handler.maxRetries =>
                             /\ handler'.pc = "threw"
                             /\ handler'.thrown = "lastError"
                             /\ handler'.lastError = error
                             /\ handlerLog' = handlerLog]_vars

\* The answers of the transport that ErrorMapper classifies requiresAuth.
AuthResponses == {r \in TransportResponses : MapHttpResponse(r).requiresAuth}

\* C23: when an invocation that is not the last one fails with an error
\* that ErrorMapper classifies requiresAuth (NO_AUTH_FOUND, expired_token,
\* INVALID_CREDENTIALS, insufficient_scope, HTTP 401 without a body),
\* handleWithRetry calls onAuthRequired, and once the hook has resolved it
\* invokes the operation again without a sleep.
AuthErrorRetriedAtOnce ==
  [][/\ \A r \in AuthResponses :
          /\ OperationSettles([kind |-> "response", response |-> r])
          /\ handler.attempt < handler.maxRetries
          => /\ handler'.pc = "onAuthRequired"
             /\ handlerLog' = Append(handlerLog,
                                     Logged("onAuthRequired", handler.attempt))
     /\ OnAuthRequiredSettles(TRUE) =>
          /\ handler'.pc = "operation"
          /\ handlerLog' = Append(handlerLog,
                                  Logged("operation", handler.attempt + 1))]_vars

\* The wait the claim names for an error.
SuggestedOrConfigured(h, error) ==
  IF error.code \in {"QUERY_LIMIT_EXCEEDED", "OVERLOAD_LIMIT"} THEN 60000
  ELSE IF error.httpStatus >= 500 THEN 5000
  ELSE h.retryDelay

\* C24: before it retries a retryable failure that is no auth error,
\* handleWithRetry sleeps 60000 ms for QUERY_LIMIT_EXCEEDED and
\* OVERLOAD_LIMIT, 5000 ms for any other error with httpStatus >= 500 and
\* retryDelay otherwise; for the two rate-limit codes onRateLimit is called,
\* and has resolved, before the sleep; onRetry is called once per sleep,
\* right before it, with the number of the failed attempt counted from 1.
RetryDelays ==
  /\ [](Len(Events("onRetry")) = Len(Events("sleep")))
  /\ [][/\ \A o \in Outcomes :
             LET error == EnsureBitrixError(ThrownBy(o))
             IN  /\ OperationSettles(o)
                 /\ o.kind # "result"
                 /\ error.isRetryable /\ ~IsAuthError(error)
                 /\ handler.attempt < handler.maxRetries
                 => IF IsRateLimit(error)
                    THEN /\ handler'.pc = "onRateLimit"
                         /\ handlerLog' = Append(handlerLog,
                                                 Logged("onRateLimit", handler.attempt))
                    ELSE handler'.pc = "sleep"
        /\ OnRateLimitSettles(TRUE) => handler'.pc = "sleep"
        /\ handler.pc # "sleep" /\ handler'.pc = "sleep" =>
             LET error == handler'.lastError
             IN  /\ error.isRetryable /\ ~IsAuthError(error)
                 /\ IsRateLimit(error) <=> handler.pc = "onRateLimit"
                 /\ handler'.delay = SuggestedOrConfigured(handler, error)
                 /\ handlerLog' = handlerLog \o
                      <<Logged("onRetry", handler.attempt + 1),
                        Logged("sleep", SuggestedOrConfigured(handler, error))>>
        /\ SleepEnds => handlerLog' = Append(handlerLog,
                                            Logged("operation", handler.attempt + 1))]_vars

\* A rate-limit failure was followed by onRateLimit, onRetry(1) and a sleep
\* of 60000 ms, the failure of the second attempt, an HTTP 429, by
\* onRetry(2) and a sleep of retryDelay.
RetryDelaysWitness ==
  /\ handler.pc = "sleep"
  /\ handler.lastError.code = "TOO_MANY_REQUESTS"
  /\ Events("onRateLimit") = <<Logged("onRateLimit", 0)>>
  /\ Events("onRetry") = <<Logged("onRetry", 1), Logged("onRetry", 2)>>
  /\ Events("sleep") = <<Logged("sleep", 60000), Logged("sleep", handler.retryDelay)>>

\* C25: the error made of an answer whose body carries an error code has
\* the table entry's httpStatus, isSystemError, isRetryable and requiresAuth
\* when the code is in the table, whatever the HTTP status of the answer;
\* for a code that is not in the table the three flags are false and
\* httpStatus is the status of the answer.
CodeClassification ==
  handler.lastResponse.error # "" =>
    LET code == handler.lastResponse.error
        error == handler.lastError
    IN  IF code \in DOMAIN SYSTEM_ERRORS
        THEN /\ error.httpStatus = SYSTEM_ERRORS[code].httpStatus
             /\ error.isSystemError = SYSTEM_ERRORS[code].isSystemError
             /\ error.isRetryable = SYSTEM_ERRORS[code].isRetryable
             /\ error.requiresAuth = SYSTEM_ERRORS[code].requiresAuth
        ELSE /\ error.httpStatus = handler.lastResponse.status
             /\ ~error.isSystemError
             /\ ~error.isRetryable
             /\ ~error.requiresAuth

\* An answer without an error body was classified last.
Bodyless ==
  handler.lastResponse.status # 0 /\ handler.lastResponse.error = ""

\* C26: the error made of an answer without an error body is retryable
\* exactly for status 429 and the statuses from 500 on, is no system error,
\* and asks for authentication exactly for status 401.
BodylessClassification ==
  Bodyless =>
    LET status == handler.lastResponse.status
        error == handler.lastError
    IN  /\ error.httpStatus = status
        /\ error.isRetryable = (status = 429 \/ status >= 500)
        /\ error.requiresAuth = (status = 401)
        /\ ~error.isSystemError

\* C26 as stated: authentication is asked for on 401 and on 403.
BodylessAuthOnForbidden ==
  Bodyless =>
    LET status == handler.lastResponse.status
        error == handler.lastError
    IN  /\ error.isRetryable = (status = 429 \/ status >= 500)
        /\ error.requiresAuth = (status \in {401, 403})
        /\ ~error.isSystemError

BodylessClassificationWitness ==
  /\ Bodyless
  /\ handler.lastResponse.status = 403
  /\ handler.lastError.code = "FORBIDDEN"
  /\ handler.pc = "threw"

-----------------------------------------------------------------------------
(***************************************************************************)
(* Properties of the limiter's backoff, decay and operating window         *)
(***************************************************************************)

\* The delays in milliseconds of the retry counts 0, 1, 2 with base 1000.
ExponentialDelays == <<1000, 2000, 4000>>
LinearDelays == <<1000, 2000, 3000>>

\* Unit u's retry is scheduled in this step.
RetryScheduled(u) ==
  units[u].where = "inflight" /\ units'[u].where = "timer"

\* C27: the retry of a unit with retry count k is scheduled with the delay
\* retryBaseDelay * 2^k under the exponential strategy and
\* retryBaseDelay * (k + 1) under the linear one, that is 1000, 2000, 4000
\* and 1000, 2000, 3000 milliseconds for k = 0, 1, 2 with base 1000; the
\* count is incremented only when the timer fires.
BackoffDelays ==
  [][\A u \in Units :
       /\ RetryScheduled(u) =>
            LET k == units[u].retryCount
            IN  /\ k < config.maxRetries
                /\ units'[u].retryCount = k
                /\ units'[u].left =
                     IF config.retryBackoffStrategy = "exponential"
                     THEN ExponentialDelays[k + 1] * (config.retryBaseDelay \div 1000)
                     ELSE LinearDelays[k + 1] * (config.retryBaseDelay \div 1000)
       /\ RetryFire(u) => units'[u].retryCount = units[u].retryCount + 1
    ]_vars

BackoffDelaysWitness ==
  /\ config.retryBackoffStrategy = "exponential"
  /\ units[1].where = "timer"
  /\ units[1].retryCount = 2
  /\ units[1].left = 4000

\* C28: a decay tick sets requestCounter to
\* max(0, requestCounter - maxRequestsPerSecond), clears isBlocked when the
\* counter is 0 then and leaves it otherwise, and changes neither the queue
\* nor blockedMethods nor the operating time used nor any request; the
\* fifth tick after the counter stood at 10, with rate 2 and no invocation
\* in between, leaves requestCounter = 0 and isBlocked = FALSE.
DecayTickEffect ==
  /\ [](state.requestCounter =
          Max(0, decayRun.from - decayRun.ticks * config.maxRequestsPerSecond))
  /\ [][DecayTick =>
          /\ state'.requestCounter =
               Max(0, state.requestCounter - config.maxRequestsPerSecond)
          /\ state'.isBlocked = (state.isBlocked /\ state'.requestCounter # 0)
          /\ state'.blockedMethods = state.blockedMethods
          /\ state'.operatingTimeUsed = state.operatingTimeUsed
          /\ state'.operatingTimeWindow = state.operatingTimeWindow
          /\ state'.operatingResetAt = state.operatingResetAt
          /\ UNCHANGED <<config, requestQueue, processingQueue, loop, units>>
          /\ (/\ config.maxRequestsPerSecond = 2
              /\ decayRun'.from = 10
              /\ decayRun'.ticks = 5)
             => state'.requestCounter = 0 /\ ~state'.isBlocked
       ]_vars

DecayTickEffectWitness ==
  /\ config.maxRequestsPerSecond = 2
  /\ decayRun.from = 10
  /\ decayRun.ticks = 5
  /\ state.requestCounter = 0
  /\ ~state.isBlocked
  /\ state.operatingTimeUsed > 0
  /\ \E u \in Units : units[u].outcome = "QUERY_LIMIT_EXCEEDED"

\* Results that carry a resource-cost figure.
CostResults == {r \in WorkResults : r.ok /\ r.operating > 0}

\* C29: when a unit of work resolves with operating time c, more than
\* operatingTimeWindow after the window started, operatingTimeUsed becomes
\* c and the window starts now; otherwise operatingTimeUsed grows by c.
\* The first window starts at construction, so it is over when the unit
\* itself has been waiting for longer than operatingTimeWindow.
OperatingWindowResets ==
  [][\A u \in Units, r \in CostResults :
       WorkSettle(u, r) =>
         LET window == config.operatingTimeWindow * 1000
             first == state.operatingTimeWindow = WindowAtConstruction
             over == IF first THEN units[u].age > window
                     ELSE state.operatingTimeWindow > window
         IN  IF over
             THEN /\ state'.operatingTimeUsed = r.operating
                  /\ state'.operatingTimeWindow = 0
             ELSE \/ state'.operatingTimeUsed = state.operatingTimeUsed + r.operating
                  \/ first /\ state'.operatingTimeUsed = r.operating
    ]_vars

\* All the requests of the run have been made.
AllSubmitted == \A u \in Units : units[u].submitted

\* C30: with queueing, burstLimit 2 and one request per second, when ten
\* low-priority requests and one high-priority request are made
\* back-to-back in any order, the high-priority one is among the first
\* three that are invoked.
HighPriorityAmongFirstThree ==
  (AllSubmitted /\ Len(served) >= 3) =>
    \E i \in 1..3 : served[i] \in HighUnits

HighPriorityAmongFirstThreeWitness ==
  /\ AllSubmitted
  /\ HighUnits = {ScenarioUnits}
  /\ Len(served) >= 3
  /\ served[2] = ScenarioUnits

-----------------------------------------------------------------------------
(***************************************************************************)
(* Further properties of the token manager                                 *)
(***************************************************************************)

\* C31: hasValidTokens() is true exactly when tokens are held and the access
\* token does not expire within the next 60 seconds, that is when
\* now < issuedAt + expires_in - 60; whenever getValidToken() would return
\* the held token without refreshing, hasValidTokens() is true.
ValidWithinOneMinute ==
  /\ HasValidTokens <=>
       /\ tokens # NoTokens
       /\ tokenIssuedAt # Null
       /\ tmNow < tokenIssuedAt + tokens.expires_in - 60
  /\ (tokens # NoTokens /\ ~IsTokenExpiringSoon) => HasValidTokens

\* C35: when no tokens are held (clearTokens() was the last assignment),
\* only a setTokens() call makes the token manager hold tokens again, also
\* when a refresh that was in flight at the clear is answered afterwards;
\* until then hasTokens() is false and getValidToken() throws.
ClearedStaysCleared ==
  [][tokens = NoTokens =>
       /\ (tokens' # NoTokens => \E t \in TokenInputs : SetTokens(t))
       /\ \A c \in Callers : GetValidToken(c) => callers'[c].pc = "threw"
    ]_vars

\* C36: tokenIssuedAt changes only in the step that assigns the tokens it
\* belongs to (setTokens, or the assignment of the refreshed tokens), so
\* that in every state, also between the answer of the token endpoint and
\* the resumption of the awaiting callers, it is the issued-at instant of
\* the tokens held.
IssuedAtOfHeldTokens ==
  [][tokenIssuedAt' # tokenIssuedAt =>
       \/ tokens' # tokens
       \/ \E t \in TokenInputs : SetTokens(t)
    ]_vars

-----------------------------------------------------------------------------
(***************************************************************************)
(* Further properties of the rate limiter                                  *)
(***************************************************************************)

\* C32: the request queue is always ordered by priority descending and,
\* among equal priorities, by timestamp ascending (the older request
\* first), also with a retried request that is queued again under its
\* original timestamp.
QueueOrdered ==
  \A i, j \in 1..Len(requestQueue) :
    i < j =>
      LET a == units[requestQueue[i]]
          b == units[requestQueue[j]]
      IN  \/ a.priority > b.priority
          \/ a.priority = b.priority /\ a.age >= b.age

\* A retried request was queued again behind a request of higher priority
\* that was submitted after it.
QueueOrderedWitness ==
  /\ requestQueue = <<2, 1>>
  /\ units[2].priority > units[1].priority
  /\ units[1].retryCount = 1

\* Failures that name the rate limit.
RateLimitFailures == {r \in WorkResults : ~r.ok /\ r.rate}

\* A request that was waiting in the queue is invoked in this step.
QueuedUnitInvoked ==
  \E v \in Units :
    units[v].where = "queue" /\ units'[v].invoked = units[v].invoked + 1

\* C33: the rate-limit failure of an invoked request leaves the limiter
\* throttled (isBlocked), and while it is throttled no queued request is
\* invoked before a decay tick has lowered the counter.
ThrottledUntilDecay ==
  [][/\ \A u \in Units, r \in RateLimitFailures :
          WorkSettle(u, r) => state'.isBlocked /\ ~QueuedUnitInvoked
     /\ (state.isBlocked /\ ~DecayTick) => ~QueuedUnitInvoked
    ]_vars

\* C37: once destroy() has returned, the limiter invokes no unit of work
\* that was submitted before the destroy; a request whose retry was
\* scheduled when destroy() ran is not queued again.
NothingRunsAfterDestroy ==
  [][Destroyed =>
       \A u \in Units :
         units[u].submitted /\ ~units[u].late =>
           /\ units'[u].invoked = units[u].invoked
           /\ units'[u].where # "queue"
    ]_vars

\* The requests whose work has been invoked and has not settled.
UnitsInFlight == {u \in Units : units[u].where = "inflight"}

\* A drain loop is running: it awaits a unit of work or a sleep, or its
\* next turn is queued.
LoopActive == loop.pc \in {"executing", "sleeping", "continuing"}

\* C38: with queueing enabled at most one unit of work is in flight, the
\* one the drain loop awaits; processingQueue is true exactly while the
\* loop runs; and while the queue is not empty the loop runs.
OneDrainLoop ==
  config.enableQueueing =>
    /\ Cardinality(UnitsInFlight) <= 1
    /\ \A u \in UnitsInFlight : loop.pc = "executing" /\ loop.unit = u
    /\ loop.pc = "executing" => units[loop.unit].where = "inflight"
    /\ processingQueue <=> LoopActive
    /\ requestQueue # <<>> => LoopActive

\* C39: the blocks of two methods are independent: when resource-exhausted
\* failures blocked x until Rx and y until a later Ry, canMakeRequest(y) is
\* false until Ry, whatever became of the block of x and whatever reset
\* figure a response carried since.
IndependentBlocks ==
  \A x, y \in Methods :
    (/\ x # y
     /\ blockUntil[x] # NoReset
     /\ blockUntil[y] # NoReset
     /\ blockUntil[x] < blockUntil[y])
    => ~CanMakeRequest(Cur, y).ok

\* The future of the request has been rejected.
FutureRejected(u) == units[u].outcome \notin {"none", "resolved"}

\* C40: resolve or reject is called at most once for a request, and a
\* request whose future was rejected (queue full, timeout in the queue,
\* destroy, or a failure that is not retried) is in no queue and no retry
\* timer afterwards and its work is not invoked again.
SettledOnceThenGone ==
  /\ [](\A u \in Units :
          /\ units[u].settleCount <= 1
          /\ FutureRejected(u) => units[u].where = "none")
  /\ [][\A u \in Units :
          FutureRejected(u) =>
            /\ units'[u].invoked = units[u].invoked
            /\ units'[u].outcome = units[u].outcome
       ]_vars

\* A request was rejected for its age in the queue, the retry of another
\* found the queue full, and destroy() rejected a third.
SettledOnceThenGoneWitness ==
  \E u, v, w \in Units :
    /\ units[u].outcome = "Rate limiter destroyed"
    /\ units[v].retryCount > 0
    /\ units[v].outcome = "Rate limiter queue is full. Try again later."
    /\ units[w].outcome \in TimeoutMessages

-----------------------------------------------------------------------------
(***************************************************************************)
(* Further properties of the error handler                                 *)
(***************************************************************************)

\* C34: within one handleWithRetry call the auth-required hook runs at most
\* once: when the attempt that follows the hook fails with an error that
\* requires authentication again, handleWithRetry throws it and neither
\* calls the hook nor the operation again.
AuthRetriedOnce ==
  /\ [](Len(Events("onAuthRequired")) <= 1)
  /\ [][\A o \in Outcomes :
          (/\ OperationSettles(o)
           /\ o.kind # "result"
           /\ Len(Events("onAuthRequired")) = 1
           /\ IsAuthError(handler'.lastError))
          => handler'.pc = "threw" /\ handlerLog' = handlerLog
       ]_vars

=============================================================================
